---------------------------- MODULE Spec2Model ----------------------------
(***************************************************************************)
(* Relationship entity-resolution and memory-consolidation engine of the   *)
(* mentoring backend (src/index.js, lines 856-1217 and the /ia and         *)
(* /mensagem routes that call it).                                         *)
(*                                                                         *)
(* Strings are sequences of one-character strings, so that normalize,      *)
(* slice, split and the kinship regular expression are computed character  *)
(* by character as the JavaScript does.  The JavaScript null is the value  *)
(* Null; `x || y` is Or(x, y).                                             *)
(***************************************************************************)
EXTENDS Integers, Sequences, FiniteSets, TLC

(***************************************************************************)
(* JavaScript values                                                       *)
(***************************************************************************)
Null == <<"<null>">>

(* The JavaScript value undefined: a missing argument. *)
Undefined == <<"<undefined>">>

Falsy(x) == x = Null \/ x = <<>>

Or(x, y) == IF Falsy(x) THEN y ELSE x

Min(S) == CHOOSE x \in S : \A y \in S : x <= y

Max(S) == CHOOSE x \in S : \A y \in S : x >= y

(* Array.prototype.slice(-n): the last n elements. *)
SliceLast(s, n) == IF Len(s) <= n THEN s ELSE SubSeq(s, Len(s) - n + 1, Len(s))

(* String.prototype.slice(0, n) / Array.prototype.slice(0, n). *)
SliceFirst(s, n) == IF Len(s) <= n THEN s ELSE SubSeq(s, 1, n)

(* Array.prototype.includes. *)
Includes(arr, x) == \E k \in 1..Len(arr) : arr[k] = x

(***************************************************************************)
(* Text Normalizer                                                         *)
(***************************************************************************)
Maiusculas ==
  <<"A", "B", "C", "D", "E", "F", "G", "H", "I", "J", "K", "L", "M",
    "N", "O", "P", "Q", "R", "S", "T", "U", "V", "W", "X", "Y", "Z",
    "Ã", "Ô", "É", "Ç">>

Minusculas ==
  <<"a", "b", "c", "d", "e", "f", "g", "h", "i", "j", "k", "l", "m",
    "n", "o", "p", "q", "r", "s", "t", "u", "v", "w", "x", "y", "z",
    "ã", "ô", "é", "ç">>

(* String.prototype.toLowerCase, one character. *)
ToLower(c) ==
  IF \E k \in 1..Len(Maiusculas) : Maiusculas[k] = c
  THEN Minusculas[CHOOSE k \in 1..Len(Maiusculas) : Maiusculas[k] = c]
  ELSE c

(* normalize('NFD') followed by the removal of U+0300..U+036F: the base    *)
(* letter of a letter that carries a combining mark.                       *)
StripMarks(c) ==
  CASE c = "ã" -> "a"
    [] c = "Ã" -> "A"
    [] c = "ô" -> "o"
    [] c = "Ô" -> "O"
    [] c = "é" -> "e"
    [] c = "É" -> "E"
    [] c = "ç" -> "c"
    [] c = "Ç" -> "C"
    [] OTHER -> c

IsSpace(c) == c \in {" ", "\n"}

(* String.prototype.trim. *)
Trim(s) ==
  LET keep == {k \in 1..Len(s) : ~IsSpace(s[k])}
  IN  IF keep = {} THEN <<>> ELSE SubSeq(s, Min(keep), Max(keep))

(* normalize: the default parameter replaces a missing argument by ''.     *)
normalize(s) ==
  LET t == IF s = Undefined THEN <<>> ELSE s
  IN  Trim([k \in 1..Len(t) |-> ToLower(StripMarks(t[k]))])

(* The default parameter does not replace null: `s.normalize` on null       *)
(* throws a TypeError.                                                      *)
normalizeLanca(s) == s = Null

(* arr.map(normalize) *)
MapNormalize(arr) == [k \in 1..Len(arr) |-> normalize(arr[k])]

(* The set of the elements of s.split(/\s+/), for a trimmed non-empty s.   *)
SplitWs(s) ==
  {SubSeq(s, a, b) : <<a, b>> \in
     {<<a, b>> \in (1..Len(s)) \X (1..Len(s)) :
        /\ a <= b
        /\ \A k \in a..b : ~IsSpace(s[k])
        /\ (a = 1 \/ IsSpace(s[a - 1]))
        /\ (b = Len(s) \/ IsSpace(s[b + 1]))}}

(* a.includes(' ') *)
HasSpace(a) == \E k \in 1..Len(a) : a[k] = " "

(***************************************************************************)
(* uniqMerge: a followed by the elements of b whose normal form is not     *)
(* among the normal forms of a (the set `seen` is built from a only).      *)
(***************************************************************************)
uniqMerge(a, b) ==
  LET seen == {normalize(a[k]) : k \in 1..Len(a)}
  IN  a \o SelectSeq(b, LAMBDA x : normalize(x) \notin seen)

(***************************************************************************)
(* Relationship-Category Classifier                                        *)
(***************************************************************************)
LexConjugal ==
  { <<"e", "s", "p", "o", "s", "a">>, <<"e", "s", "p", "o", "s", "o">>,
    <<"c", "o", "n", "j", "u", "g", "e">>, <<"c", "ô", "n", "j", "u", "g", "e">>,
    <<"m", "a", "r", "i", "d", "o">>,
    <<"n", "a", "m", "o", "r", "a", "d", "a">>, <<"n", "a", "m", "o", "r", "a", "d", "o">>,
    <<"p", "a", "r", "c", "e", "i", "r", "a">>, <<"p", "a", "r", "c", "e", "i", "r", "o">> }

LexIrmao ==
  { <<"i", "r", "m", "a">>, <<"i", "r", "m", "ã", "o">>,
    <<"i", "r", "m", "a", "o">>, <<"i", "r", "m", "ã">> }

LexParental ==
  { <<"m", "a", "e">>, <<"m", "ã", "e">>, <<"p", "a", "i">>,
    <<"s", "o", "g", "r", "a">>, <<"s", "o", "g", "r", "o">> }

LexFilhos == { <<"f", "i", "l", "h", "o">>, <<"f", "i", "l", "h", "a">> }

familyGroup(tipo) ==
  LET t == normalize(tipo)
  IN  CASE t \in LexConjugal -> "conjugal"
        [] t \in LexIrmao -> "irmao"
        [] t \in LexParental -> "parental"
        [] t \in LexFilhos -> "filhos"
        [] OTHER -> "outros"

conflictPairs ==
  { <<"conjugal", "irmao">>, <<"irmao", "conjugal">>,
    <<"conjugal", "parental">>, <<"parental", "conjugal">> }

(* A faulty variant of the conflict test: no two groups conflict. *)
semConflito(a, b) == FALSE

groupsConflict(a, b) ==
  LET ga == familyGroup(a)
      gb == familyGroup(b)
  IN  IF ga = gb THEN FALSE ELSE <<ga, gb>> \in conflictPairs

(***************************************************************************)
(* Match Resolver                                                          *)
(***************************************************************************)
PesoNome == 6

PesoAliasComposto == 5

PesoAliasFraco == 2

PesoJaccard == 4

LimiarMatch == 5

(* A faulty variant of the name test: every word of one name is a word of *)
(* the other, instead of the two names being equal.                       *)
nomeContido(nomeN, vNome) ==
  /\ nomeN # <<>>
  /\ vNome # <<>>
  /\ (SplitWs(nomeN) \subseteq SplitWs(vNome) \/ SplitWs(vNome) \subseteq SplitWs(nomeN))

(* A faulty variant of the name test: the two tests of emptiness are      *)
(* missing, so two empty names are equal.                                 *)
nomeIgual(nomeN, vNome) == nomeN = vNome

(* nomeN && vNome && nomeN === vNome *)
nomeExato(nomeN, vNome) == nomeN # <<>> /\ vNome # <<>> /\ nomeN = vNome

(* A faulty variant of the composed-alias test: the test of the space is  *)
(* negated.                                                                *)
aliasCompostoInvertido(aliasesN, vAliases) ==
  \E k \in 1..Len(aliasesN) : ~HasSpace(aliasesN[k]) /\ Includes(vAliases, aliasesN[k])

(* A faulty variant of the composed-alias test: the test of the space is  *)
(* missing.                                                                *)
aliasQualquer(aliasesN, vAliases) ==
  \E k \in 1..Len(aliasesN) : Includes(vAliases, aliasesN[k])

(* aliasesN.some((a) => a.includes(' ') && vAliases.includes(a)) *)
composedAliasHit(aliasesN, vAliases) ==
  \E k \in 1..Len(aliasesN) : HasSpace(aliasesN[k]) /\ Includes(vAliases, aliasesN[k])

(* aliasesN.some((a) => !a.includes(' ') && vAliases.includes(a)) *)
weakOverlap(aliasesN, vAliases) ==
  \E k \in 1..Len(aliasesN) : ~HasSpace(aliasesN[k]) /\ Includes(vAliases, aliasesN[k])

(* jacc = inter / max(1, |a| + |b| - inter) >= 0.7, in integers. *)
jaccOk(nomeN, vNome) ==
  LET a == SplitWs(nomeN)
      b == SplitWs(vNome)
      inter == Cardinality(a \cap b)
      uni == Max({1, Cardinality(a) + Cardinality(b) - inter})
  IN  10 * inter >= 7 * uni

(* The score the loop body gives candidate v for the mention pessoa. *)
scoreDe(v, pessoa) ==
  LET nomeN == normalize(Or(pessoa.nome_real, <<>>))
      aliasesN == MapNormalize(pessoa.apelidos)
      vNome == normalize(Or(v.nome_real, <<>>))
      vAliases == MapNormalize(v.apelidos_descricoes)
      s1 == IF nomeExato(nomeN, vNome) THEN PesoNome ELSE 0
      s2 == s1 + (IF composedAliasHit(aliasesN, vAliases) THEN PesoAliasComposto ELSE 0)
      s3 == s2 + (IF /\ weakOverlap(aliasesN, vAliases)
                     /\ ~groupsConflict(Or(v.tipo_vinculo, <<>>), Or(pessoa.tipo_vinculo, <<>>))
                  THEN PesoAliasFraco ELSE 0)
  IN  s3 + (IF nomeN # <<>> /\ vNome # <<>> /\ s3 = 0 /\ jaccOk(nomeN, vNome)
            THEN PesoJaccard ELSE 0)

strongEvidence(v, pessoa) ==
  \/ nomeExato(normalize(Or(pessoa.nome_real, <<>>)), normalize(Or(v.nome_real, <<>>)))
  \/ composedAliasHit(MapNormalize(pessoa.apelidos), MapNormalize(v.apelidos_descricoes))

(* `if (conflict && !strongEvidence) continue;` *)
skipped(v, pessoa) ==
  /\ groupsConflict(Or(v.tipo_vinculo, <<>>), Or(pessoa.tipo_vinculo, <<>>))
  /\ ~strongEvidence(v, pessoa)

(* A faulty variant of the loop: an equal score replaces the best so far. *)
RECURSIVE matchLoopUltimo(_, _, _, _, _)
matchLoopUltimo(existing, pessoa, k, best, bestScore) ==
  IF k > Len(existing) THEN [best |-> best, bestScore |-> bestScore]
  ELSE IF skipped(existing[k], pessoa)
       THEN matchLoopUltimo(existing, pessoa, k + 1, best, bestScore)
       ELSE IF scoreDe(existing[k], pessoa) >= bestScore
            THEN matchLoopUltimo(existing, pessoa, k + 1, k, scoreDe(existing[k], pessoa))
            ELSE matchLoopUltimo(existing, pessoa, k + 1, best, bestScore)

(* The for loop: best is an index into existing, 0 for null. *)
RECURSIVE matchLoop(_, _, _, _, _)
matchLoop(existing, pessoa, k, best, bestScore) ==
  IF k > Len(existing) THEN [best |-> best, bestScore |-> bestScore]
  ELSE IF skipped(existing[k], pessoa)
       THEN matchLoop(existing, pessoa, k + 1, best, bestScore)
       ELSE IF scoreDe(existing[k], pessoa) > bestScore
            THEN matchLoop(existing, pessoa, k + 1, k, scoreDe(existing[k], pessoa))
            ELSE matchLoop(existing, pessoa, k + 1, best, bestScore)

(* A faulty variant of the threshold: the overlap of the names is enough. *)
aceitaJaccard(bestScore) == bestScore >= PesoJaccard

(* A faulty variant of the threshold: a single-token alias is enough. *)
aceitaFraco(bestScore) == bestScore >= PesoAliasFraco

(* `return bestScore >= 5 ? best : null` *)
aceita(bestScore) == bestScore >= LimiarMatch

(* The index in existing of the record returned, 0 when null is returned. *)
encontrarMatchVinculo(existing, pessoa) ==
  LET r == matchLoop(existing, pessoa, 1, 0, -1)
  IN  IF aceita(r.bestScore) THEN r.best ELSE 0

(***************************************************************************)
(* Kinship Relativizer.  The regular expression re is, with the flags gi,  *)
(* a kinship word, white space, d with an optional a, white space, one     *)
(* letter and then a greedy run of 1 to 60 letters, white space, quotes,   *)
(* dots and hyphens.                                                       *)
(***************************************************************************)
NomeCapturaMax == 60

(* The class of the first character of the captured name: a letter. *)
IsLetter(c) == Includes(Maiusculas, c) \/ Includes(Minusculas, c)

(* The class of the rest of the captured name. *)
IsNameChar(c) == IsLetter(c) \/ IsSpace(c) \/ c \in {"'", ".", "-"}

(* The kinship word (mae, mãe or pai) at position k, case-insensitive. *)
KinAt(t, k) ==
  /\ k + 2 <= Len(t)
  /\ \/ ToLower(t[k]) = "m" /\ ToLower(t[k + 1]) \in {"a", "ã"} /\ ToLower(t[k + 2]) = "e"
     \/ ToLower(t[k]) = "p" /\ ToLower(t[k + 1]) = "a" /\ ToLower(t[k + 2]) = "i"

(* The first position from k on that holds no white space (Len(t)+1 at the end). *)
SkipWs(t, k) == Min({x \in k..(Len(t) + 1) : x = Len(t) + 1 \/ ~IsSpace(t[x])})

(* Where `d`, the optional `a` and then the second \s+ leave the match, or 0. *)
AfterDa(t, j) ==
  IF j > Len(t) \/ ToLower(t[j]) # "d" THEN 0
  ELSE LET w == IF j + 1 <= Len(t) /\ ToLower(t[j + 1]) = "a" THEN j + 2 ELSE j + 1
           l == SkipWs(t, w)
       IN  IF l > w /\ l <= Len(t) THEN l ELSE 0

(* The last position of the greedy name capture that starts at l. *)
CaptureEnd(t, l) ==
  Max({x \in l..Min({Len(t), l + NomeCapturaMax}) : \A y \in (l + 1)..x : IsNameChar(t[y])})

(* The match of re that starts at position k, if any. *)
MatchAt(t, k) ==
  LET j == IF KinAt(t, k) THEN SkipWs(t, k + 3) ELSE 0
      l == IF j > k + 3 THEN AfterDa(t, j) ELSE 0
      e == IF l > 0 /\ IsLetter(t[l]) THEN CaptureEnd(t, l) ELSE 0
  IN  IF e > l /\ l > 0
      THEN [ok |-> TRUE, m1 |-> SubSeq(t, k, k + 2), m2 |-> SubSeq(t, l, e), fim |-> e]
      ELSE [ok |-> FALSE, m1 |-> <<>>, m2 |-> <<>>, fim |-> 0]

(* re.exec(texto) with lastIndex = from - 1: the leftmost match from `from` on. *)
ExecFrom(t, from) ==
  LET starts == {k \in from..Len(t) : MatchAt(t, k).ok}
  IN  IF starts = {} THEN MatchAt(t, Len(t) + 1) ELSE MatchAt(t, Min(starts))

matchNomeOuAlias(v, alvo) ==
  LET t == normalize(alvo)
  IN  /\ t # <<>>
      /\ \/ normalize(Or(v.nome_real, <<>>)) = t
         \/ Includes(MapNormalize(v.apelidos_descricoes), t)

(* tipo.startsWith('p') ? 'sogro' : 'sogra' *)
mappedDe(tipo) ==
  IF Len(tipo) > 0 /\ tipo[1] = "p"
  THEN <<"s", "o", "g", "r", "o">>
  ELSE <<"s", "o", "g", "r", "a">>

(* A faulty variant of the type test: the in-law types are rewritten too. *)
ehParental(tipo_vinculo) == normalize(Or(tipo_vinculo, <<>>)) \in LexParental

(* t === 'mae' || t === 'mãe' || t === 'pai', t the normalized type. *)
ehPaiOuMae(tipo_vinculo) ==
  normalize(Or(tipo_vinculo, <<>>)) \in {<<"m", "a", "e">>, <<"m", "ã", "e">>, <<"p", "a", "i">>}

(* An element of the array the model answered that is no object: the JSON *)
(* value null or a bare JSON string.                                       *)
JsonNull == [json |-> "null"]

JsonString == [json |-> "string"]

NaoObjeto(p) == "json" \in DOMAIN p

(* The inner for loop: every mention that is mother/father gets `mapped`   *)
(* (p.tipo_vinculo of a string is undefined; of null it throws, see        *)
(* relativizadorLanca).                                                    *)
remapear(out, mapped) ==
  [k \in 1..Len(out) |->
     IF NaoObjeto(out[k]) THEN out[k]
     ELSE IF ehPaiOuMae(out[k].tipo_vinculo)
     THEN [out[k] EXCEPT !.tipo_vinculo = mapped]
     ELSE out[k]]

(* The while loop over the matches of re in texto. *)
RECURSIVE relLoop(_, _, _, _)
relLoop(texto, from, conj, out) ==
  LET m == ExecFrom(texto, from)
  IN  IF ~m.ok THEN out
      ELSE IF \E k \in 1..Len(conj) : matchNomeOuAlias(conj[k], Trim(m.m2))
           THEN relLoop(texto, m.fim + 1, conj, remapear(out, mappedDe(normalize(m.m1))))
           ELSE relLoop(texto, m.fim + 1, conj, out)

(* getConjuges, given the rows the read returned. *)
getConjuges(data) ==
  SelectSeq(data, LAMBDA v : normalize(v.tipo_vinculo) \in LexConjugal)

(* The filter of getConjuges calls normalize(v.tipo_vinculo) on every row   *)
(* and throws on a row whose tipo_vinculo is null.                          *)
getConjugesLanca(data) ==
  \E k \in 1..Len(data) : normalizeLanca(data[k].tipo_vinculo)

(* Some match of re in texto, from `from` on, names a spouse. *)
RECURSIVE algumConjuge(_, _, _)
algumConjuge(texto, from, conj) ==
  LET m == ExecFrom(texto, from)
  IN  IF ~m.ok THEN FALSE
      ELSE \/ \E k \in 1..Len(conj) : matchNomeOuAlias(conj[k], Trim(m.m2))
           \/ algumConjuge(texto, m.fim + 1, conj)

(* `p.tipo_vinculo` throws a TypeError when the inner loop reaches a null  *)
(* element.                                                                *)
relativizadorLanca(texto, conj, pessoas) ==
  /\ Len(conj) > 0
  /\ algumConjuge(texto, 1, conj)
  /\ \E k \in 1..Len(pessoas) : pessoas[k] = JsonNull

(* inferirParentescoRelativo, given the spouse records. *)
inferirParentescoRelativo(texto, conj, pessoas) ==
  IF Len(conj) = 0 THEN pessoas ELSE relLoop(texto, 1, conj, pessoas)

(***************************************************************************)
(* Record Consolidator: the values upsertVinculo computes                  *)
(***************************************************************************)
HistoricoMax == 12

TrechoMax == 240

(* novoHistoricoItem *)
novoHistoricoItem(agoraISO, trechoMensagem) ==
  [data |-> agoraISO, trecho |-> SliceFirst(Or(trechoMensagem, <<>>), TrechoMax)]

(* A faulty variant of the history window: it keeps the oldest entries.   *)
historicoPrimeiros(historico, item) == SliceFirst(Append(historico, item), HistoricoMax)

(* [...historico, novoHistoricoItem].slice(-12) *)
historicoNovo(historico, item) == SliceLast(Append(historico, item), HistoricoMax)

(* A faulty variant of nomeFinal: the newest non-empty name wins. *)
nomeMaisRecente(nomeAtual, nomeNovo) == IF nomeNovo # <<>> THEN nomeNovo ELSE nomeAtual

(* nomeFinal: the new name when the current one is empty or shorter. *)
nomeFinal(nomeAtual, nomeNovo) ==
  IF \/ (nomeAtual = <<>> /\ nomeNovo # <<>>)
     \/ (nomeNovo # <<>> /\ Len(nomeNovo) > Len(nomeAtual))
  THEN nomeNovo
  ELSE nomeAtual

(* A faulty variant of the new count: the increment is missing.           *)
frequenciaSemIncremento(frequencia_mencao) == frequencia_mencao

(* (match.frequencia_mencao || 0) + 1 *)
frequenciaNova(frequencia_mencao) == frequencia_mencao + 1

(* The object passed to .update(...) when the resolver returned match. *)
camposUpdate(match, pessoa, agoraISO, trechoMensagem) ==
  [ nome_real |-> Or(nomeFinal(Or(match.nome_real, <<>>), Or(pessoa.nome_real, <<>>)),
                     match.nome_real),
    tipo_vinculo |-> Or(pessoa.tipo_vinculo, match.tipo_vinculo),
    apelidos_descricoes |-> uniqMerge(match.apelidos_descricoes, pessoa.apelidos),
    marcador_emocional |-> match.marcador_emocional,
    contextos_relevantes |-> match.contextos_relevantes,
    frequencia_mencao |-> frequenciaNova(match.frequencia_mencao),
    ultima_mencao |-> agoraISO,
    historico_mencoes |->
      historicoNovo(match.historico_mencoes, novoHistoricoItem(agoraISO, trechoMensagem)) ]

(* A faulty variant of toInsert: the defaults of name and type are missing. *)
toInsertSemPadroes(id, user_id, pessoa, agoraISO, trechoMensagem) ==
  [ id |-> id,
    user_id |-> user_id,
    nome_real |-> pessoa.nome_real,
    tipo_vinculo |-> pessoa.tipo_vinculo,
    apelidos_descricoes |-> pessoa.apelidos,
    marcador_emocional |-> <<>>,
    contextos_relevantes |-> <<>>,
    frequencia_mencao |-> 1,
    ultima_mencao |-> agoraISO,
    historico_mencoes |-> <<novoHistoricoItem(agoraISO, trechoMensagem)>>,
    perfil_compacto |-> Null ]

(* toInsert, with the id the store gives the new row. *)
toInsert(id, user_id, pessoa, agoraISO, trechoMensagem) ==
  [ id |-> id,
    user_id |-> user_id,
    nome_real |-> Or(pessoa.nome_real, Null),
    tipo_vinculo |-> Or(pessoa.tipo_vinculo,
                        <<"d", "e", "s", "c", "o", "n", "h", "e", "c", "i", "d", "o">>),
    apelidos_descricoes |-> pessoa.apelidos,
    marcador_emocional |-> <<>>,
    contextos_relevantes |-> <<>>,
    frequencia_mencao |-> 1,
    ultima_mencao |-> agoraISO,
    historico_mencoes |-> <<novoHistoricoItem(agoraISO, trechoMensagem)>>,
    perfil_compacto |-> Null ]

(* A faulty variant of the update: the row is replaced, its compact       *)
(* profile is lost.                                                        *)
linhaSubstituida(row, campos) ==
  [row EXCEPT !.nome_real = campos.nome_real,
              !.tipo_vinculo = campos.tipo_vinculo,
              !.apelidos_descricoes = campos.apelidos_descricoes,
              !.marcador_emocional = campos.marcador_emocional,
              !.contextos_relevantes = campos.contextos_relevantes,
              !.frequencia_mencao = campos.frequencia_mencao,
              !.ultima_mencao = campos.ultima_mencao,
              !.historico_mencoes = campos.historico_mencoes,
              !.perfil_compacto = Null]

(* The row after .update(campos): the listed columns are overwritten. *)
linhaAtualizada(row, campos) ==
  [row EXCEPT !.nome_real = campos.nome_real,
              !.tipo_vinculo = campos.tipo_vinculo,
              !.apelidos_descricoes = campos.apelidos_descricoes,
              !.marcador_emocional = campos.marcador_emocional,
              !.contextos_relevantes = campos.contextos_relevantes,
              !.frequencia_mencao = campos.frequencia_mencao,
              !.ultima_mencao = campos.ultima_mencao,
              !.historico_mencoes = campos.historico_mencoes]

(* p.apelidos = Array.isArray(p.apelidos) ? p.apelidos.filter(Boolean) : [] *)
filtrarApelidos(apelidos) ==
  IF apelidos = Null THEN <<>> ELSE SelectSeq(apelidos, LAMBDA a : ~Falsy(a))

(* What one loop iteration pushes on nomesOuApelidosCitados. *)
nomesDaPessoa(p) ==
  (IF Falsy(p.nome_real) THEN <<>> ELSE <<p.nome_real>>) \o p.apelidos

(***************************************************************************)
(* Context Selector                                                        *)
(***************************************************************************)
LimitePadrao == 3

(* A faulty variant of the comparator: the counts are compared the other  *)
(* way round.                                                              *)
antesDeCrescente(a, b) ==
  \/ a.frequencia_mencao < b.frequencia_mencao
  \/ a.frequencia_mencao = b.frequencia_mencao /\ a.ultima_mencao > b.ultima_mencao

(* The comparator of outros.sort: a negative result puts a before b. *)
antesDe(a, b) ==
  \/ a.frequencia_mencao > b.frequencia_mencao
  \/ a.frequencia_mencao = b.frequencia_mencao /\ a.ultima_mencao > b.ultima_mencao

(* Array.prototype.sort with that comparator (a stable sort). *)
RECURSIVE ordenar(_)
ordenar(rows) ==
  IF Len(rows) = 0 THEN <<>>
  ELSE LET k == Min({x \in 1..Len(rows) : \A y \in 1..Len(rows) : ~antesDe(rows[y], rows[x])})
       IN  <<rows[k]>> \o ordenar(SubSeq(rows, 1, k - 1) \o SubSeq(rows, k + 1, Len(rows)))

(* `nomeMatch || aliasMatch` for row v. *)
citadoAgora(v, nomesN) ==
  \/ Includes(nomesN, normalize(Or(v.nome_real, <<>>)))
  \/ \E k \in 1..Len(v.apelidos_descricoes) : Includes(nomesN, normalize(v.apelidos_descricoes[k]))

(* selecionarVinculosParaContexto, given the rows the read returned. *)
selecionarVinculosParaContexto(data, nomesCitados, limite) ==
  LET nomesN == MapNormalize(nomesCitados)
      citados == SelectSeq(data, LAMBDA v : citadoAgora(v, nomesN))
      outros == SelectSeq(data, LAMBDA v : ~citadoAgora(v, nomesN))
  IN  SliceFirst(citados \o ordenar(outros), limite)

(***************************************************************************)
(* The state: the table vinculos_usuario and the message-handling flows    *)
(***************************************************************************)
VARIABLES
  vinculos,   \* the rows of vinculos_usuario, in insertion order; id = position
  appended,   \* history: per row, every history item a successful write added
  proc,       \* per flow: the position and the locals of the route handler;
              \* lote is the model's answer, pessoas the batch being processed
  relogio,    \* the wall clock read by new Date()
  nreq,       \* history: how many requests have arrived
  falhas      \* history: how many collaborator calls have failed

vars == <<vinculos, appended, proc, relogio, nreq, falhas>>

(* Bounds of the model. *)
MaxReq == 2

MaxReqSeq == 2

MaxReqHist == 16

MaxFalhas == 1

Flows == {1, 2}

Rotas == {"ia", "mensagem"}

NenhumCiclo == [op |-> "none"]

ProcIdle ==
  [ pc |-> "idle", rota |-> "-", user_id |-> "-", texto |-> <<>>, lote |-> <<>>,
    pessoas |-> <<>>, conjLido |-> TRUE, i |-> 0, agoraISO |-> 0,
    existentes |-> <<>>, lido |-> TRUE,
    match |-> 0, pendente |-> [op |-> "none"], id |-> 0, resumo |-> <<>>,
    nomesOuApelidosCitados |-> <<>>, limite |-> LimitePadrao,
    vinculosContexto |-> <<>>, res |-> "-", erro |-> "-",
    pen |-> NenhumCiclo, ult |-> NenhumCiclo ]

Init ==
  /\ vinculos = <<>>
  /\ appended = <<>>
  /\ proc = [f \in Flows |-> ProcIdle]
  /\ relogio = 0
  /\ nreq = 0
  /\ falhas = 0

(* .from('vinculos_usuario').select(...).eq('user_id', user_id) *)
(* A faulty variant of the read: it sees none of the rows written. *)
linhasNaoVistas(user_id) == <<>>

linhasDoUsuario(user_id) == SelectSeq(vinculos, LAMBDA v : v.user_id = user_id)

(* A collaborator call (store or language model) may fail. *)
PodeFalhar == falhas < MaxFalhas

(* The handler has answered: its locals are gone. *)
Terminado(p, res) ==
  [ProcIdle EXCEPT !.pc = "fim", !.rota = p.rota, !.user_id = p.user_id,
                   !.res = res, !.pen = p.pen, !.ult = p.ult]

(* An exception thrown at `onde` reached the catch of the route handler,   *)
(* which answers 500.                                                      *)
Lancou(p, onde) == [Terminado(p, "erro500") EXCEPT !.erro = onde]

(* The for loop of processarVinculosUsuario moves to mention k, or ends and *)
(* the route goes on: /ia selects the context, /mensagem answers 201.  The  *)
(* first statements of the loop body throw a TypeError when the element is  *)
(* no object (`p.apelidos = ...` on null, `...p.apelidos` on a string).     *)
IrParaMencao(p, k) ==
  LET q == [p EXCEPT !.i = k, !.existentes = <<>>, !.lido = TRUE, !.match = 0,
                     !.pendente = [op |-> "none"], !.id = 0, !.resumo = <<>>]
  IN  IF k <= Len(p.pessoas)
      THEN IF NaoObjeto(p.pessoas[k]) THEN Lancou(p, "mencao") ELSE [q EXCEPT !.pc = "buscar"]
      ELSE IF p.rota = "ia" THEN [q EXCEPT !.pc = "selecionar"]
      ELSE Terminado(p, "201")

(* A request arrives at POST /ia or POST /mensagem. *)
Arrive(f, msgs, rotas, max) ==
  /\ proc[f].pc \in {"idle", "fim"}
  /\ nreq < max
  /\ \E m \in msgs, rota \in rotas :
       proc' = [proc EXCEPT ![f] =
                  [ProcIdle EXCEPT !.pc = "extrair", !.rota = rota, !.user_id = m.user_id,
                                   !.texto = m.texto, !.lote = m.lote,
                                   !.pen = proc[f].pen, !.ult = proc[f].ult]]
  /\ nreq' = nreq + 1
  /\ relogio' = relogio + 1
  /\ UNCHANGED <<vinculos, appended, falhas>>

(* extrairPessoasDaMensagem: the model call answers, answers something that *)
(* is no JSON array, or throws (no try/catch up to the route handler).      *)
Extract(f) ==
  /\ proc[f].pc = "extrair"
  /\ \/ /\ proc' = [proc EXCEPT ![f] = [@ EXCEPT !.pc = "relativizar",
                                                  !.pessoas = proc[f].lote]]
        /\ UNCHANGED falhas
     \/ /\ PodeFalhar
        /\ proc' = [proc EXCEPT ![f] = [@ EXCEPT !.pc = "relativizar", !.pessoas = <<>>,
                                                  !.lote = <<>>]]
        /\ falhas' = falhas + 1
     \/ /\ PodeFalhar
        /\ proc' = [proc EXCEPT ![f] = Lancou(@, "extracao")]
        /\ falhas' = falhas + 1
  /\ UNCHANGED <<vinculos, appended, relogio, nreq>>

(* inferirParentescoRelativo (its read of the spouse records may fail and   *)
(* then gives no rows), then agoraISO and the entry of the for loop.        *)
AposConjuges(p, conj, conjLido, agora) ==
  IF relativizadorLanca(p.texto, conj, p.pessoas)
  THEN Lancou(p, "relativizar")
  ELSE IrParaMencao([p EXCEPT !.pessoas = inferirParentescoRelativo(p.texto, conj, p.pessoas),
                              !.conjLido = conjLido,
                              !.agoraISO = agora], 1)

Relativize(f) ==
  /\ proc[f].pc = "relativizar"
  /\ \/ /\ proc' = [proc EXCEPT ![f] =
                      IF getConjugesLanca(linhasDoUsuario(proc[f].user_id))
                      THEN Lancou(@, "conjuges")
                      ELSE AposConjuges(@, getConjuges(linhasDoUsuario(proc[f].user_id)),
                                        TRUE, relogio)]
        /\ UNCHANGED falhas
     \/ /\ PodeFalhar
        /\ proc' = [proc EXCEPT ![f] = AposConjuges(@, getConjuges(<<>>), FALSE, relogio)]
        /\ falhas' = falhas + 1
  /\ UNCHANGED <<vinculos, appended, relogio, nreq>>

(* The mention of this iteration after `p.apelidos = ...filter(Boolean)`. *)
pessoaAtual(p) ==
  [p.pessoas[p.i] EXCEPT !.apelidos = filtrarApelidos(@)]

(* The locals after fetchVinculosExistentes returned `existentes`: the     *)
(* resolver has run and the write, not yet executed, has been decided.     *)
AposLeitura(p, existentes, lido) ==
  LET pessoa == pessoaAtual(p)
      m == encontrarMatchVinculo(existentes, pessoa)
  IN  [p EXCEPT
         !.pc = "gravar",
         !.pessoas = [@ EXCEPT ![p.i] = pessoa],
         !.nomesOuApelidosCitados = @ \o nomesDaPessoa(pessoa),
         !.existentes = existentes,
         !.lido = lido,
         !.match = m,
         !.pendente =
           IF m > 0
           THEN [op |-> "update", id |-> existentes[m].id,
                 campos |-> camposUpdate(existentes[m], pessoa, p.agoraISO, p.texto)]
           ELSE [op |-> "insert",
                 linha |-> toInsert(0, p.user_id, pessoa, p.agoraISO, p.texto)]]

(* The loop prelude and upsertVinculo up to its write: the read of the     *)
(* user's rows (an error is logged and gives []), then the resolver.       *)
Fetch(f) ==
  /\ proc[f].pc = "buscar"
  /\ \/ /\ proc' = [proc EXCEPT ![f] = AposLeitura(@, linhasDoUsuario(@.user_id), TRUE)]
        /\ UNCHANGED falhas
     \/ /\ PodeFalhar
        /\ proc' = [proc EXCEPT ![f] = AposLeitura(@, <<>>, FALSE)]
        /\ falhas' = falhas + 1
  /\ UNCHANGED <<vinculos, appended, relogio, nreq>>

(* What the history keeps of a consolidation cycle once its write is over. *)
Ciclo(p, ok, id) ==
  [ op |-> p.pendente.op, ok |-> ok, id |-> id, pessoa |-> p.pessoas[p.i],
    existentes |-> p.existentes, lido |-> p.lido, match |-> p.match ]

(* A faulty variant: the loop ends after the first write and the route    *)
(* goes on to the context selection.                                       *)
AposEscritaFimDoLaco(p, ok, id) ==
  [p EXCEPT !.id = id, !.pen = p.ult, !.ult = Ciclo(p, ok, id), !.pc = "selecionar"]

(* upsertVinculo returned id: the compaction follows when id is not null. *)
AposEscrita(p, ok, id) ==
  LET q == [p EXCEPT !.id = id, !.pen = p.ult, !.ult = Ciclo(p, ok, id)]
  IN  IF id # 0 THEN [q EXCEPT !.pc = "perfil_ler"] ELSE IrParaMencao(q, p.i + 1)

(* The table after .update(campos).eq('id', id). *)
tabelaAtualizada(id, campos) ==
  [k \in 1..Len(vinculos) |->
     IF vinculos[k].id = id THEN linhaAtualizada(vinculos[k], campos) ELSE vinculos[k]]

(* The last item of the history column that a write carries. *)
itemEscrito(historico) == historico[Len(historico)]

(* The write of upsertVinculo: the update of the matched row (its id is    *)
(* returned whether or not the update failed) or the insert of a new row   *)
(* (null is returned when it failed).                                      *)
Gravar(f) ==
  /\ proc[f].pc = "gravar"
  /\ \/ /\ proc[f].pendente.op = "update"
        /\ vinculos' = tabelaAtualizada(proc[f].pendente.id, proc[f].pendente.campos)
        /\ appended' = [appended EXCEPT ![proc[f].pendente.id] =
                          Append(@, itemEscrito(proc[f].pendente.campos.historico_mencoes))]
        /\ proc' = [proc EXCEPT ![f] = AposEscrita(@, TRUE, @.pendente.id)]
        /\ UNCHANGED falhas
     \/ /\ proc[f].pendente.op = "update"
        /\ PodeFalhar
        /\ proc' = [proc EXCEPT ![f] = AposEscrita(@, FALSE, @.pendente.id)]
        /\ falhas' = falhas + 1
        /\ UNCHANGED <<vinculos, appended>>
     \/ /\ proc[f].pendente.op = "insert"
        /\ vinculos' = Append(vinculos,
                              [proc[f].pendente.linha EXCEPT !.id = Len(vinculos) + 1])
        /\ appended' = Append(appended, proc[f].pendente.linha.historico_mencoes)
        /\ proc' = [proc EXCEPT ![f] = AposEscrita(@, TRUE, Len(vinculos) + 1)]
        /\ UNCHANGED falhas
     \/ /\ proc[f].pendente.op = "insert"
        /\ PodeFalhar
        /\ proc' = [proc EXCEPT ![f] = AposEscrita(@, FALSE, 0)]
        /\ falhas' = falhas + 1
        /\ UNCHANGED <<vinculos, appended>>
  /\ UNCHANGED <<relogio, nreq>>

(* atualizarPerfilCompacto, the read of the row by id: on an error it returns. *)
PerfilLer(f) ==
  /\ proc[f].pc = "perfil_ler"
  /\ \/ /\ proc' = [proc EXCEPT ![f] = [@ EXCEPT !.pc = "perfil_llm"]]
        /\ UNCHANGED falhas
     \/ /\ PodeFalhar
        /\ proc' = [proc EXCEPT ![f] = IrParaMencao(@, @.i + 1)]
        /\ falhas' = falhas + 1
  /\ UNCHANGED <<vinculos, appended, relogio, nreq>>

Resumos == { <<"r", "e", "s", "u", "m", "o">> }

(* atualizarPerfilCompacto, the summarization call: a summary, an empty    *)
(* content (it returns), or an exception (nothing catches it before the    *)
(* route handler).                                                         *)
PerfilLLM(f) ==
  /\ proc[f].pc = "perfil_llm"
  /\ \/ /\ \E r \in Resumos :
             proc' = [proc EXCEPT ![f] = [@ EXCEPT !.pc = "perfil_gravar", !.resumo = r]]
        /\ UNCHANGED falhas
     \/ /\ PodeFalhar
        /\ proc' = [proc EXCEPT ![f] = IrParaMencao(@, @.i + 1)]
        /\ falhas' = falhas + 1
     \/ /\ PodeFalhar
        /\ proc' = [proc EXCEPT ![f] = Lancou(@, "resumo")]
        /\ falhas' = falhas + 1
  /\ UNCHANGED <<vinculos, appended, relogio, nreq>>

(* atualizarPerfilCompacto, the update of perfil_compacto (its result is   *)
(* not looked at).                                                         *)
PerfilGravar(f) ==
  /\ proc[f].pc = "perfil_gravar"
  /\ \/ /\ vinculos' = [k \in 1..Len(vinculos) |->
                          IF vinculos[k].id = proc[f].id
                          THEN [vinculos[k] EXCEPT !.perfil_compacto = proc[f].resumo]
                          ELSE vinculos[k]]
        /\ UNCHANGED falhas
     \/ /\ PodeFalhar
        /\ falhas' = falhas + 1
        /\ UNCHANGED vinculos
  /\ proc' = [proc EXCEPT ![f] = IrParaMencao(@, @.i + 1)]
  /\ UNCHANGED <<appended, relogio, nreq>>

(* `return nomesOuApelidosCitados.filter(Boolean)` *)
nomesRetornados(p) == SelectSeq(p.nomesOuApelidosCitados, LAMBDA x : ~Falsy(x))

(* /ia: selecionarVinculosParaContexto (a failed read gives []). *)
Selecionar(f) ==
  /\ proc[f].pc = "selecionar"
  /\ \/ /\ proc' = [proc EXCEPT ![f] =
                      [@ EXCEPT !.pc = "responder",
                                !.vinculosContexto =
                                  selecionarVinculosParaContexto(
                                    linhasDoUsuario(proc[f].user_id),
                                    nomesRetornados(proc[f]), LimitePadrao)]]
        /\ UNCHANGED falhas
     \/ /\ PodeFalhar
        /\ proc' = [proc EXCEPT ![f] = [@ EXCEPT !.pc = "responder", !.vinculosContexto = <<>>]]
        /\ falhas' = falhas + 1
  /\ UNCHANGED <<vinculos, appended, relogio, nreq>>

(* /ia: the rest of the handler (prompt, completion, saving the reply),    *)
(* which is not part of this subsystem, produces the reply.                *)
Responder(f) ==
  /\ proc[f].pc = "responder"
  /\ proc' = [proc EXCEPT ![f] = Terminado(@, "resposta")]
  /\ UNCHANGED <<vinculos, appended, relogio, nreq, falhas>>

(***************************************************************************)
(* The inputs: texts, the mentions the extractor may return for them       *)
(***************************************************************************)
LucianaBraga == <<"L", "u", "c", "i", "a", "n", "a", " ", "B", "r", "a", "g", "a">>

LuBraga == <<"L", "u", " ", "B", "r", "a", "g", "a">>

Lu == <<"L", "u">>

LuMaiusculo == <<"L", "U">>

MariaSouza == <<"M", "a", "r", "i", "a", " ", "S", "o", "u", "z", "a">>

MariaSilvaSouza ==
  <<"M", "a", "r", "i", "a", " ", "S", "i", "l", "v", "a", " ", "S", "o", "u", "z", "a">>

Ana == <<"A", "n", "a">>

Esposa == <<"e", "s", "p", "o", "s", "a">>

Irma == <<"i", "r", "m", "a">>

Mae == <<"m", "a", "e">>

MaeAcento == <<"m", "ã", "e">>

Pai == <<"p", "a", "i">>

Sogra == <<"s", "o", "g", "r", "a">>

Sogro == <<"s", "o", "g", "r", "o">>

Amigo == <<"a", "m", "i", "g", "o">>

TextoOi == <<"o", "i">>

TextoMaeDaAna == <<"m", "ã", "e", " ", "d", "a", " ", "A", "n", "a">>

TextoMaeDaAnaLigou ==
  <<"a", " ", "m", "ã", "e", " ", "d", "a", " ", "A", "n", "a", " ", "l", "i", "g", "o", "u">>

(* A text of TrechoMax + 1 characters. *)
TextoLongo == [k \in 1..(TrechoMax + 1) |-> IF k = 1 THEN "o" ELSE "i"]

Pessoa(nome_real, apelidos, tipo_vinculo) ==
  [nome_real |-> nome_real, apelidos |-> apelidos, tipo_vinculo |-> tipo_vinculo]

Mensagem(texto, lote) == [user_id |-> "u1", texto |-> texto, lote |-> lote]

(* The messages of the sequential scenarios. *)
MensagensSeq ==
  { Mensagem(TextoOi, <<Pessoa(LucianaBraga, <<>>, Esposa)>>),
    Mensagem(TextoOi, <<Pessoa(LucianaBraga, <<LuBraga, Lu>>, Esposa)>>),
    Mensagem(TextoOi, <<Pessoa(<<>>, <<LuBraga>>, Esposa)>>),
    Mensagem(TextoOi, <<Pessoa(<<>>, <<Lu>>, Irma)>>),
    Mensagem(TextoOi, <<Pessoa(MariaSouza, <<>>, Mae)>>),
    Mensagem(TextoOi, <<Pessoa(MariaSilvaSouza, <<>>, Mae)>>),
    Mensagem(TextoOi, <<Pessoa(<<>>, <<Ana>>, Esposa)>>),
    Mensagem(TextoMaeDaAnaLigou, <<Pessoa(<<>>, <<>>, Mae)>>),
    Mensagem(TextoOi, <<Pessoa(LucianaBraga, <<>>, Esposa),
                        Pessoa(LucianaBraga, <<Lu>>, Esposa)>>) }

(* The messages of the two interleaved flows. *)
MensagensConc ==
  { Mensagem(TextoOi, <<Pessoa(Ana, <<>>, Esposa), Pessoa(Ana, <<>>, Esposa)>>),
    Mensagem(TextoOi, <<Pessoa(<<>>, <<Lu, LuMaiusculo>>, Amigo)>>) }

(* The messages of the long run on one record. *)
MensagensHist ==
  { Mensagem(TextoLongo, <<Pessoa(LucianaBraga, <<Lu>>, Esposa)>>) }

(***************************************************************************)
(* upsertVinculo called for one mention on a store that earlier turns have *)
(* filled                                                                  *)
(***************************************************************************)
MaxLinhasRes == 2

MariaSilvaSouzaLima == MariaSilvaSouza \o <<" ", "L", "i", "m", "a">>

(* A row as its insert left it (LinhaSel is defined with the selector). *)
LinhaRes(nome_real, apelidos, tipo_vinculo) ==
  [ id |-> 0, user_id |-> "u1", nome_real |-> nome_real, tipo_vinculo |-> tipo_vinculo,
    apelidos_descricoes |-> apelidos, marcador_emocional |-> <<>>,
    contextos_relevantes |-> <<>>, frequencia_mencao |-> 1, ultima_mencao |-> 1,
    historico_mencoes |-> <<novoHistoricoItem(1, TextoOi)>>,
    perfil_compacto |-> Null ]

LinhasRes ==
  { LinhaRes(LucianaBraga, <<>>, Esposa),
    LinhaRes(LucianaBraga, <<Lu>>, Irma),
    LinhaRes(Null, <<Lu>>, Esposa),
    LinhaRes(Null, <<LuBraga>>, Esposa),
    LinhaRes(MariaSilvaSouza, <<>>, Irma) }

(* The stores: up to MaxLinhasRes of these rows, in any order, id = position. *)
StoresRes ==
  UNION { { [k \in 1..n |-> [rows[k] EXCEPT !.id = k]] : rows \in [1..n -> LinhasRes] } :
          n \in 0..MaxLinhasRes }

MencoesRes ==
  { Pessoa(n, a, t) : n \in {<<>>, LucianaBraga, MariaSilvaSouzaLima},
                      a \in {<<>>, <<Lu>>, <<Lu, LuBraga>>},
                      t \in {Esposa, Irma, Mae} }

InitRes ==
  /\ vinculos \in StoresRes
  /\ appended = [k \in 1..Len(vinculos) |-> vinculos[k].historico_mencoes]
  /\ proc = [f \in Flows |-> ProcIdle]
  /\ relogio = 1
  /\ nreq = 0
  /\ falhas = 0

(* The loop of processarVinculosUsuario reaches the single mention of a    *)
(* message of /mensagem and calls upsertVinculo for it.                    *)
ChamarUpsert(f) ==
  /\ proc[f].pc = "idle"
  /\ \E pessoa \in MencoesRes :
       proc' = [proc EXCEPT ![f] =
                  IrParaMencao([ProcIdle EXCEPT !.rota = "mensagem", !.user_id = "u1",
                                                !.texto = TextoOi, !.lote = <<pessoa>>,
                                                !.pessoas = <<pessoa>>,
                                                !.agoraISO = relogio + 1], 1)]
  /\ nreq' = nreq + 1
  /\ relogio' = relogio + 1
  /\ UNCHANGED <<vinculos, appended, falhas>>

(***************************************************************************)
(* upsertVinculo called on a record that other write paths have enriched   *)
(***************************************************************************)
Luciana == <<"L", "u", "c", "i", "a", "n", "a">>

LucianaBrega == <<"L", "u", "c", "i", "a", "n", "a", " ", "B", "r", "e", "g", "a">>

Lulu == <<"L", "u", "l", "u">>

LuluMaiusculo == <<"L", "U", "L", "U">>

Amor == <<"a", "m", "o", "r">>

Casa == <<"c", "a", "s", "a">>

(* A record with emotion markers, contexts and a compact profile, as the   *)
(* session summary and the compactor leave it.                             *)
LinhaRica(id, user_id, nome_real) ==
  [LinhaRes(nome_real, <<LuBraga, Lu>>, Esposa) EXCEPT
     !.id = id, !.user_id = user_id, !.marcador_emocional = <<Amor>>,
     !.contextos_relevantes = <<Casa>>, !.frequencia_mencao = 3,
     !.perfil_compacto = <<"r", "e", "s", "u", "m", "o">>]

(* The stores: a record of another user, the record of the acting user     *)
(* under three names, and a second record of the acting user.              *)
StoresMerge ==
  { << LinhaRica(1, "u2", LucianaBraga),
       LinhaRica(2, "u1", n),
       [LinhaRes(MariaSouza, <<>>, Irma) EXCEPT !.id = 3] >> :
    n \in {Null, Luciana, LucianaBraga} }

MencoesMerge ==
  { Pessoa(n, a, t) : n \in {<<>>, Luciana, LucianaBraga, LucianaBrega, MariaSilvaSouza},
                      a \in {<<>>, <<LuBraga>>, <<LuBraga, LuMaiusculo, Lulu>>,
                              <<Lulu, LuBraga, LuluMaiusculo>>},
                      t \in {<<>>, Esposa} }

InitMerge ==
  /\ vinculos \in StoresMerge
  /\ appended = [k \in 1..Len(vinculos) |-> vinculos[k].historico_mencoes]
  /\ proc = [f \in Flows |-> ProcIdle]
  /\ relogio = 1
  /\ nreq = 0
  /\ falhas = 0

(* The loop of processarVinculosUsuario reaches the single mention of a    *)
(* message of user u1 and calls upsertVinculo for it.                      *)
ChamarMerge(f) ==
  /\ proc[f].pc = "idle"
  /\ \E pessoa \in MencoesMerge :
       proc' = [proc EXCEPT ![f] =
                  IrParaMencao([ProcIdle EXCEPT !.rota = "mensagem", !.user_id = "u1",
                                                !.texto = TextoOi, !.lote = <<pessoa>>,
                                                !.pessoas = <<pessoa>>,
                                                !.agoraISO = relogio + 1], 1)]
  /\ nreq' = nreq + 1
  /\ relogio' = relogio + 1
  /\ UNCHANGED <<vinculos, appended, falhas>>

(* The interleaved flows: each message mentions "Ana" once; the store is   *)
(* empty or holds her record from an earlier turn.                         *)
MaxReqRace == 2

MensagensRace == { Mensagem(TextoOi, <<Pessoa(Ana, <<>>, Esposa)>>) }

StoresRace == { <<>>, <<[LinhaRes(Ana, <<>>, Esposa) EXCEPT !.id = 1]>> }

InitRace ==
  /\ vinculos \in StoresRace
  /\ appended = [k \in 1..Len(vinculos) |-> vinculos[k].historico_mencoes]
  /\ proc = [f \in Flows |-> ProcIdle]
  /\ relogio = 1
  /\ nreq = 0
  /\ falhas = 0

(* The turns of /ia whose order of steps is looked at: no mention, one     *)
(* mention, two mentions; and a long text with a mention that has no name, *)
(* no type and an empty string among its aliases.                          *)
MaxReqOrd == 2

MensagensOrd ==
  { Mensagem(TextoOi, <<>>),
    Mensagem(TextoOi, <<Pessoa(Ana, <<>>, Esposa)>>),
    Mensagem(TextoOi, <<Pessoa(LucianaBraga, <<>>, Esposa),
                        Pessoa(LucianaBraga, <<Lu>>, Esposa)>>),
    Mensagem(TextoLongo, <<Pessoa(<<>>, <<Lu, <<>>>>, <<>>)>>),
    Mensagem(TextoOi, <<Pessoa(<<>>, <<LuBraga>>, <<>>),
                        Pessoa(Luciana, <<LuBraga>>, <<>>),
                        Pessoa(LucianaBraga, <<LuBraga>>, <<>>),
                        Pessoa(LucianaBrega, <<LuBraga>>, <<>>),
                        Pessoa(<<>>, <<LuBraga>>, <<>>)>>) }

(***************************************************************************)
(* The relativizer called on texts that name the spouse                    *)
(***************************************************************************)
MaxReqRel == 1

TextoPaiDaAna == <<"p", "a", "i", " ", "d", "a", " ", "A", "n", "a">>

TextoMaeEPaiDaAna == TextoMaeDaAna \o <<",", " ">> \o TextoPaiDaAna

(* The stores: empty, a spouse known by the alias or by the name "Ana", a  *)
(* sister of that alias.                                                   *)
StoresRel ==
  { <<>>,
    <<[LinhaRes(Null, <<Ana>>, Esposa) EXCEPT !.id = 1]>>,
    <<[LinhaRes(Ana, <<>>, Esposa) EXCEPT !.id = 1]>>,
    <<[LinhaRes(Null, <<Ana>>, Irma) EXCEPT !.id = 1]>> }

(* Batches of one or two mentions typed mother, father, sister or          *)
(* mother-in-law.                                                          *)
LotesRel ==
  LET tipos == {Mae, MaeAcento, Pai, Irma, Sogra}
  IN  { <<Pessoa(MariaSouza, <<Lu>>, t)>> : t \in tipos }
        \cup { <<Pessoa(MariaSouza, <<Lu>>, t), Pessoa(<<>>, <<>>, u)>> : t \in tipos, u \in tipos }

MensagensRel ==
  { Mensagem(t, l) : t \in {TextoOi, TextoMaeDaAna, TextoPaiDaAna, TextoMaeEPaiDaAna},
                     l \in LotesRel }

InitRel ==
  /\ vinculos \in StoresRel
  /\ appended = [k \in 1..Len(vinculos) |-> vinculos[k].historico_mencoes]
  /\ proc = [f \in Flows |-> ProcIdle]
  /\ relogio = 1
  /\ nreq = 0
  /\ falhas = 0

(* The messages for which the model answers an array with elements that   *)
(* are no mention objects.                                                 *)
MaxReqExt == 2

MensagensExt ==
  { Mensagem(TextoOi, <<JsonNull>>),
    Mensagem(TextoOi, <<JsonString>>),
    Mensagem(TextoOi, <<Pessoa(Ana, <<>>, Esposa), JsonNull>>),
    Mensagem(TextoMaeDaAna, <<JsonString, Pessoa(<<>>, <<>>, Mae)>>),
    Mensagem(TextoMaeDaAna, <<Pessoa(<<>>, <<>>, Pai), JsonNull>>) }

(***************************************************************************)
(* The context selector called on a store that earlier turns have filled   *)
(***************************************************************************)
MaxLimite == 4

(* A row as `freq` consolidations of one batch, at time ultima, left it. *)
LinhaSel(id, nome_real, apelidos, tipo_vinculo, freq, ultima) ==
  [ id |-> id, user_id |-> "u1", nome_real |-> nome_real, tipo_vinculo |-> tipo_vinculo,
    apelidos_descricoes |-> apelidos, marcador_emocional |-> <<>>,
    contextos_relevantes |-> <<>>, frequencia_mencao |-> freq, ultima_mencao |-> ultima,
    historico_mencoes |->
      [j \in 1..(IF freq <= HistoricoMax THEN freq ELSE HistoricoMax) |->
         novoHistoricoItem(ultima, TextoOi)],
    perfil_compacto |-> Null ]

FrequenciasSel == {1, 5, 9}

UltimasSel == {<<1, 2, 3>>, <<3, 2, 1>>, <<2, 2, 2>>}

(* The stores: three records, every combination of the counts. *)
StoresSel ==
  { << LinhaSel(1, Ana, <<>>, Esposa, c[1], u[1]),
       LinhaSel(2, MariaSouza, <<>>, Mae, c[2], u[2]),
       LinhaSel(3, LucianaBraga, <<LuBraga, Lu>>, Irma, c[3], u[3]) >> :
     c \in [1..3 -> FrequenciasSel], u \in UltimasSel }

(* The names of a turn, as processarVinculosUsuario returns them. *)
NomesSel ==
  { <<>>, <<Ana>>, <<LuMaiusculo>>, <<MariaSilvaSouza>>, <<Lu, Ana>>, <<LucianaBraga, LuBraga>> }

InitSel ==
  /\ vinculos \in StoresSel
  /\ appended = [k \in 1..Len(vinculos) |->
                  [j \in 1..vinculos[k].frequencia_mencao |->
                     novoHistoricoItem(vinculos[k].ultima_mencao, TextoOi)]]
  /\ proc = [f \in Flows |-> ProcIdle]
  /\ relogio = 3
  /\ nreq = 0
  /\ falhas = 0

(* A call selecionarVinculosParaContexto(user_id, nomesCitados, limite):   *)
(* the read returns the user's rows, or fails and the result is [].        *)
ChamarSelecao(f) ==
  /\ proc[f].pc = "idle"
  /\ \E nomes \in NomesSel, limite \in 0..MaxLimite :
       \/ /\ proc' = [proc EXCEPT ![f] =
                        [ProcIdle EXCEPT !.pc = "selecao", !.user_id = "u1",
                                         !.nomesOuApelidosCitados = nomes,
                                         !.limite = limite, !.lido = TRUE,
                                         !.vinculosContexto =
                                           selecionarVinculosParaContexto(
                                             linhasDoUsuario("u1"), nomes, limite)]]
          /\ UNCHANGED falhas
       \/ /\ PodeFalhar
          /\ proc' = [proc EXCEPT ![f] =
                        [ProcIdle EXCEPT !.pc = "selecao", !.user_id = "u1",
                                         !.nomesOuApelidosCitados = nomes,
                                         !.limite = limite, !.lido = FALSE,
                                         !.vinculosContexto = <<>>]]
          /\ falhas' = falhas + 1
  /\ UNCHANGED <<vinculos, appended, relogio, nreq>>

(***************************************************************************)
(* The specifications                                                      *)
(***************************************************************************)
(* Two flows of the same user whose steps interleave at every await. *)
Next ==
  \E f \in Flows :
    \/ Arrive(f, MensagensConc, Rotas, MaxReq)
    \/ Extract(f)
    \/ Relativize(f)
    \/ Fetch(f)
    \/ Gravar(f)
    \/ PerfilLer(f)
    \/ PerfilLLM(f)
    \/ PerfilGravar(f)
    \/ Selecionar(f)
    \/ Responder(f)

Spec == Init /\ [][Next]_vars

(* One flow: the turns of /ia are handled one after the other. *)
NextSeq ==
  \/ Arrive(1, MensagensSeq, {"ia"}, MaxReqSeq)
  \/ Extract(1)
  \/ Relativize(1)
  \/ Fetch(1)
  \/ Gravar(1)
  \/ PerfilLer(1)
  \/ PerfilLLM(1)
  \/ PerfilGravar(1)
  \/ Selecionar(1)
  \/ Responder(1)

SpecSeq == Init /\ [][NextSeq]_vars

(* One flow, the same person mentioned in every message. *)
NextHist ==
  \/ Arrive(1, MensagensHist, Rotas, MaxReqHist)
  \/ Extract(1)
  \/ Relativize(1)
  \/ Fetch(1)
  \/ Gravar(1)
  \/ PerfilLer(1)
  \/ PerfilLLM(1)
  \/ PerfilGravar(1)
  \/ Selecionar(1)
  \/ Responder(1)

SpecHist == Init /\ [][NextHist]_vars

(* One flow, the model answering arrays with malformed elements. *)
NextExt ==
  \/ Arrive(1, MensagensExt, Rotas, MaxReqExt)
  \/ Extract(1)
  \/ Relativize(1)
  \/ Fetch(1)
  \/ Gravar(1)
  \/ PerfilLer(1)
  \/ PerfilLLM(1)
  \/ PerfilGravar(1)
  \/ Selecionar(1)
  \/ Responder(1)

SpecExt == Init /\ [][NextExt]_vars

(* Calls of upsertVinculo on the stores of StoresRes. *)
NextRes ==
  \/ ChamarUpsert(1)
  \/ Fetch(1)
  \/ Gravar(1)

SpecRes == InitRes /\ [][NextRes]_vars

(* Two flows of the same user on /mensagem, both messages mentioning the   *)
(* same person.                                                            *)
NextRace ==
  \E f \in Flows :
    \/ Arrive(f, MensagensRace, {"mensagem"}, MaxReqRace)
    \/ Extract(f)
    \/ Relativize(f)
    \/ Fetch(f)
    \/ Gravar(f)
    \/ PerfilLer(f)
    \/ PerfilLLM(f)
    \/ PerfilGravar(f)

SpecRace == InitRace /\ [][NextRace]_vars

(* One flow on /ia with batches of zero, one and two mentions. *)
NextOrd ==
  \/ Arrive(1, MensagensOrd, {"ia"}, MaxReqOrd)
  \/ Extract(1)
  \/ Relativize(1)
  \/ Fetch(1)
  \/ Gravar(1)
  \/ PerfilLer(1)
  \/ PerfilLLM(1)
  \/ PerfilGravar(1)
  \/ Selecionar(1)
  \/ Responder(1)

SpecOrd == Init /\ [][NextOrd]_vars

(* Calls of upsertVinculo on the stores of StoresMerge. *)
NextMerge ==
  \/ ChamarMerge(1)
  \/ Fetch(1)
  \/ Gravar(1)

SpecMerge == InitMerge /\ [][NextMerge]_vars

(* A request up to the end of its relativizer, on the stores of StoresRel. *)
NextRel ==
  \/ Arrive(1, MensagensRel, {"mensagem"}, MaxReqRel)
  \/ Extract(1)
  \/ Relativize(1)

SpecRel == InitRel /\ [][NextRel]_vars

(***************************************************************************)
(* Messages whose mentions carry no name and no alias, on /mensagem, on    *)
(* the stores of StoresRes                                                 *)
(***************************************************************************)
MaxReqAnon == 1

MensagensAnon ==
  { Mensagem(TextoOi, <<Pessoa(<<>>, <<>>, Esposa), Pessoa(<<>>, <<>>, Esposa)>>),
    Mensagem(TextoOi, <<Pessoa(Null, <<<<>>>>, Esposa), Pessoa(<<>>, <<>>, <<>>)>>),
    Mensagem(TextoOi, <<Pessoa(LucianaBraga, <<>>, Esposa), Pessoa(<<>>, <<>>, Irma)>>) }

NextAnon ==
  \/ Arrive(1, MensagensAnon, {"mensagem"}, MaxReqAnon)
  \/ Extract(1)
  \/ Relativize(1)
  \/ Fetch(1)
  \/ Gravar(1)
  \/ PerfilLer(1)
  \/ PerfilLLM(1)
  \/ PerfilGravar(1)

SpecAnon == InitRes /\ [][NextAnon]_vars

(***************************************************************************)
(* /ia on turns whose mentions carry a name or an alias of white space     *)
(***************************************************************************)
MaxReqCit == 1

Branco == <<" ">>

MensagensCit ==
  { Mensagem(TextoOi, <<Pessoa(<<>>, <<>>, Esposa), Pessoa(Branco, <<>>, <<>>)>>),
    Mensagem(TextoOi, <<Pessoa(<<>>, <<>>, Esposa), Pessoa(Ana, <<Branco>>, Irma)>>),
    Mensagem(TextoOi, <<Pessoa(<<>>, <<>>, Esposa), Pessoa(Ana, <<Lu>>, Irma)>>),
    Mensagem(TextoOi, <<Pessoa(<<>>, <<LuBraga>>, Esposa), Pessoa(Ana, <<>>, Irma)>>) }

NextCit ==
  \/ Arrive(1, MensagensCit, {"ia"}, MaxReqCit)
  \/ Extract(1)
  \/ Relativize(1)
  \/ Fetch(1)
  \/ Gravar(1)
  \/ PerfilLer(1)
  \/ PerfilLLM(1)
  \/ PerfilGravar(1)
  \/ Selecionar(1)
  \/ Responder(1)

SpecCit == Init /\ [][NextCit]_vars

(***************************************************************************)
(* normalize called on one value: a text, null or a missing argument       *)
(***************************************************************************)
MaxLenNorm == 3

LetrasNorm == {"Ã", "é", " ", "L", "a"}

TextosNorm == UNION { [1..n -> LetrasNorm] : n \in 0..MaxLenNorm }

EntradasNorm == TextosNorm \cup {Null, Undefined}

InitNorm ==
  /\ vinculos = <<>>
  /\ appended = <<>>
  /\ \E s \in EntradasNorm :
       proc = [f \in Flows |-> IF f = 1 THEN [ProcIdle EXCEPT !.texto = s] ELSE ProcIdle]
  /\ relogio = 1
  /\ nreq = 0
  /\ falhas = 0

(* normalize(texto): the string it returns is kept in resumo. *)
ChamarNormalize(f) ==
  /\ proc[f].pc = "idle"
  /\ proc' = [proc EXCEPT ![f] =
                IF normalizeLanca(proc[f].texto)
                THEN [Lancou(@, "normalize") EXCEPT !.rota = "normalize", !.texto = proc[f].texto]
                ELSE [@ EXCEPT !.pc = "fim", !.rota = "normalize", !.resumo = normalize(proc[f].texto)]]
  /\ nreq' = nreq + 1
  /\ UNCHANGED <<vinculos, appended, relogio, falhas>>

(* getConjuges on the read of one stored row whose tipo_vinculo is texto    *)
(* (a row read from the table has every selected column: null, never        *)
(* undefined).                                                              *)
ChamarGetConjuges(f) ==
  /\ proc[f].pc = "idle"
  /\ proc[f].texto # Undefined
  /\ LET data == <<[LinhaRes(Ana, <<>>, proc[f].texto) EXCEPT !.id = 1]>>
     IN  proc' = [proc EXCEPT ![f] =
                    IF getConjugesLanca(data)
                    THEN [Lancou(@, "conjuges") EXCEPT !.rota = "getConjuges", !.texto = proc[f].texto]
                    ELSE [@ EXCEPT !.pc = "fim", !.rota = "getConjuges",
                                   !.existentes = getConjuges(data)]]
  /\ nreq' = nreq + 1
  /\ UNCHANGED <<vinculos, appended, relogio, falhas>>

(* Calls of normalize, and of the filter of getConjuges, on one value. *)
NextNorm == ChamarNormalize(1) \/ ChamarGetConjuges(1)

SpecNorm == InitNorm /\ [][NextNorm]_vars

(* Calls of the context selector on the stores of StoresSel. *)
NextSel == ChamarSelecao(1)

SpecSel == InitSel /\ [][NextSel]_vars

(***************************************************************************)
(* Properties                                                              *)
(*                                                                         *)
(* proc[f].ult is the last consolidation cycle of flow f whose write is     *)
(* over and proc[f].pen the one before it: the mention, the rows the read   *)
(* returned, whether the read and the write succeeded, and the id returned. *)
(***************************************************************************)
NomeN(p) == normalize(Or(p.nome_real, <<>>))

TipoN(p) == normalize(Or(p.tipo_vinculo, <<>>))

(* The rows of a list that carry the name n. *)
LinhasComNomeEm(rows, n) == {k \in 1..Len(rows) : NomeN(rows[k]) = n}

(* The rows of the store that carry the name n. *)
LinhasComNome(n) == {k \in 1..Len(vinculos) : NomeN(vinculos[k]) = n}

(* Cycle c ran with both of its store calls succeeding. *)
CicloLimpo(c) == c.op # "none" /\ c.lido /\ c.ok

(* Two consecutive cycles of p for the same non-empty name and the same    *)
(* type, every store call succeeding, the store holding before the first   *)
(* no record for the person: none with that name and none the resolver     *)
(* links to either mention.                                                *)
C1_Caso(p) ==
  /\ CicloLimpo(p.pen)
  /\ CicloLimpo(p.ult)
  /\ NomeN(p.pen.pessoa) # <<>>
  /\ p.ult.pessoa.nome_real = p.pen.pessoa.nome_real
  /\ p.ult.pessoa.tipo_vinculo = p.pen.pessoa.tipo_vinculo
  /\ LinhasComNomeEm(p.pen.existentes, NomeN(p.pen.pessoa)) = {}
  /\ p.pen.match = 0
  /\ encontrarMatchVinculo(p.pen.existentes, p.ult.pessoa) = 0

(* C1: consolidating the same mention (same non-empty normalized name, same *)
(* type) twice in sequence on a store without a record for that person,    *)
(* every store call succeeding, leaves exactly one record for the person,  *)
(* with mention count 2 and two history entries: the second cycle updates  *)
(* the record the first one inserted.                                      *)
C1_IdempotentReMention ==
  C1_Caso(proc[1]) =>
    /\ proc[1].pen.op = "insert"
    /\ proc[1].ult.op = "update"
    /\ proc[1].ult.id = proc[1].pen.id
    /\ LinhasComNome(NomeN(proc[1].pen.pessoa)) = {proc[1].pen.id}
    /\ vinculos[proc[1].pen.id].frequencia_mencao = 2
    /\ Len(vinculos[proc[1].pen.id].historico_mencoes) = 2

C1_Witness ==
  /\ C1_Caso(proc[1])
  /\ proc[1].ult.op = "update"
  /\ vinculos[proc[1].pen.id].frequencia_mencao = 2

(* The row the last cycle of p matched, when it matched one. *)
LinhaCasada(c) == c.existentes[c.match]

(* The cycle c updated a row it scored at the threshold or above and added *)
(* no row: the store has as many rows as c read.                           *)
Fundiu(c) ==
  /\ c.op = "update"
  /\ c.match > 0
  /\ scoreDe(LinhaCasada(c), c.pessoa) >= LimiarMatch
  /\ Len(vinculos) = Len(c.existentes)

(* The cycle c inserted a row: the store has one more row than c read. *)
Inseriu(c) ==
  /\ c.op = "insert"
  /\ c.match = 0
  /\ Len(vinculos) = Len(c.existentes) + 1

(* The mention with an empty name and the single alias "Lu Braga". *)
SoLuBraga(m) == NomeN(m) = <<>> /\ m.apelidos = <<LuBraga>>

(* Row v lists an alias equal, after normalize, to a. *)
TemApelido(v, a) == Includes(MapNormalize(v.apelidos_descricoes), normalize(a))

(* The record a mention named "Luciana Braga" created is read by the next  *)
(* cycle, whose mention is the alias "Lu Braga" alone.                     *)
C2_Caso(p) ==
  /\ CicloLimpo(p.pen)
  /\ p.pen.op = "insert"
  /\ p.pen.pessoa.nome_real = LucianaBraga
  /\ CicloLimpo(p.ult)
  /\ SoLuBraga(p.ult.pessoa)

(* C2 as stated: the record created by the mention "Luciana Braga" is      *)
(* matched with score >= 5 by the later mention that has only the alias    *)
(* "Lu Braga", and merged; no duplicate is inserted.                       *)
C2_Original ==
  C2_Caso(proc[1]) => Fundiu(proc[1].ult) /\ proc[1].ult.id = proc[1].pen.id

(* C2, amended: a mention with an empty name and the single alias          *)
(* "Lu Braga" is merged, with score >= 5 and without inserting a row,      *)
(* whenever the rows read hold a record named "Luciana Braga" whose alias  *)
(* list has an alias equal to "Lu Braga" after normalize; when that is the *)
(* only row with the alias, it is the row merged into.                     *)
C2_AliasDrivenMerge ==
  LET c == proc[1].ult
      comApelido == {k \in 1..Len(c.existentes) : TemApelido(c.existentes[k], LuBraga)}
  IN  ( /\ CicloLimpo(c)
        /\ SoLuBraga(c.pessoa)
        /\ \E k \in comApelido : c.existentes[k].nome_real = LucianaBraga )
      => /\ Fundiu(c)
         /\ c.match \in comApelido
         /\ TemApelido(vinculos[c.id], LuBraga)

C2_Witness ==
  /\ C2_Caso(proc[1])
  /\ Fundiu(proc[1].ult)
  /\ TemApelido(LinhaCasada(proc[1].ult), LuBraga)
  /\ proc[1].ult.id = proc[1].pen.id

(* The normalized aliases that row v and mention m have in common. *)
ApelidosComuns(v, m) ==
  {normalize(v.apelidos_descricoes[k]) : k \in 1..Len(v.apelidos_descricoes)}
    \cap {normalize(m.apelidos[k]) : k \in 1..Len(m.apelidos)}

(* Row v and mention m share no alias and no word of their names. *)
NadaEmComum(v, m) ==
  /\ ApelidosComuns(v, m) = {}
  /\ \/ NomeN(v) = <<>>
     \/ NomeN(m) = <<>>
     \/ SplitWs(NomeN(v)) \cap SplitWs(NomeN(m)) = {}

(* An existing record named "Maria Souza", no alias in common and no       *)
(* conflicting type, and a mention named "Maria Silva Souza".              *)
C3_Linha(v, m) ==
  /\ v.nome_real = MariaSouza
  /\ ApelidosComuns(v, m) = {}
  /\ ~groupsConflict(Or(v.tipo_vinculo, <<>>), Or(m.tipo_vinculo, <<>>))

C3_Caso(c) ==
  /\ CicloLimpo(c)
  /\ c.pessoa.nome_real = MariaSilvaSouza
  /\ \E k \in 1..Len(c.existentes) : C3_Linha(c.existentes[k], c.pessoa)

(* C3 as stated: the mention "Maria Silva Souza" is merged into the        *)
(* existing record "Maria Souza" instead of a new record being inserted.   *)
C3_Original ==
  C3_Caso(proc[1].ult) =>
    /\ proc[1].ult.op = "update"
    /\ C3_Linha(LinhaCasada(proc[1].ult), proc[1].ult.pessoa)

(* C3, amended: the mention "Maria Silva Souza" is never merged into an    *)
(* existing record "Maria Souza" with which it shares no alias (the token  *)
(* similarity 2/3 is below 0.70 and scores nothing); when no row read has  *)
(* the name of the mention or an alias in common with it, a new record is  *)
(* inserted.                                                               *)
C3_JaccardNoMerge ==
  LET c == proc[1].ult
  IN  C3_Caso(c) =>
        /\ \A k \in 1..Len(c.existentes) :
             C3_Linha(c.existentes[k], c.pessoa) =>
               /\ scoreDe(c.existentes[k], c.pessoa) = 0
               /\ c.match # k
        /\ (\A k \in 1..Len(c.existentes) :
              /\ NomeN(c.existentes[k]) # NomeN(c.pessoa)
              /\ ApelidosComuns(c.existentes[k], c.pessoa) = {})
             => /\ Inseriu(c)
                /\ vinculos[c.id].nome_real = MariaSilvaSouza

C3_Witness ==
  /\ C3_Caso(proc[1].ult)
  /\ Inseriu(proc[1].ult)
  /\ Len(vinculos) = 2
  /\ vinculos[1].nome_real = MariaSouza
  /\ vinculos[2].nome_real = MariaSilvaSouza

(* A record of type "esposa" and a mention of type "irma" that share a     *)
(* single-token alias and nothing else.                                    *)
C6_Linha(v, m) ==
  /\ TipoN(v) = Esposa
  /\ TipoN(m) = Irma
  /\ ApelidosComuns(v, m) # {}
  /\ \A a \in ApelidosComuns(v, m) : a # <<>> /\ ~HasSpace(a)
  /\ (NomeN(v) = <<>> \/ NomeN(v) # NomeN(m))

C6_Caso(c) ==
  /\ CicloLimpo(c)
  /\ \E k \in 1..Len(c.existentes) : C6_Linha(c.existentes[k], c.pessoa)
  /\ \A k \in 1..Len(c.existentes) :
       C6_Linha(c.existentes[k], c.pessoa) \/ NadaEmComum(c.existentes[k], c.pessoa)

(* C6: a mention of type "irma" whose only overlap with the stored records *)
(* is a single-token alias shared with a record of type "esposa" gets no   *)
(* match; a new record is inserted, so the store has one record more, and  *)
(* the "esposa" record is unchanged.                                       *)
C6_ConflictGuard ==
  LET c == proc[1].ult
  IN  C6_Caso(c) =>
        /\ encontrarMatchVinculo(c.existentes, c.pessoa) = 0
        /\ Inseriu(c)
        /\ TipoN(vinculos[c.id]) = Irma
        /\ \A k \in 1..Len(c.existentes) : vinculos[c.existentes[k].id] = c.existentes[k]

C6_Witness ==
  /\ C6_Caso(proc[1].ult)
  /\ Inseriu(proc[1].ult)
  /\ Len(vinculos) = 2
  /\ TipoN(vinculos[1]) = Esposa
  /\ TipoN(vinculos[2]) = Irma

(* C4 as stated: whatever the extraction call, the store calls and the     *)
(* summarization call do, a turn of /ia ends by producing a reply.         *)
C4_Original ==
  \A f \in Flows :
    (proc[f].pc = "fim" /\ proc[f].rota = "ia") => proc[f].res = "resposta"

(* C5 as stated, for the read: when the read of the existing records       *)
(* failed for the mention being consolidated, the step that ends the       *)
(* consolidation of that mention inserts and modifies no record.           *)
C5_Original ==
  [][ \A f \in Flows :
        (proc[f].pc = "gravar" /\ ~proc[f].lido /\ proc'[f] # proc[f])
          => vinculos' = vinculos ]_vars

(* The text t contains the text sub. *)
ContainsText(t, sub) ==
  \E k \in 1..(Len(t) - Len(sub) + 1) : SubSeq(t, k, k + Len(sub) - 1) = sub

(* The store holds a spouse record with the alias "Ana". *)
ConjugeAna(user_id) ==
  \E k \in 1..Len(vinculos) :
    /\ vinculos[k].user_id = user_id
    /\ TipoN(vinculos[k]) \in LexConjugal
    /\ TemApelido(vinculos[k], Ana)

(* Flow f has just left the relativizer, which read the spouse records. *)
AposRelativizar(f) ==
  /\ proc[f].pc = "buscar"
  /\ proc[f].i = 1
  /\ proc[f].conjLido
  /\ Len(proc[f].pessoas) = Len(proc[f].lote)

(* C7 as stated: with a stored spouse record with alias "Ana", for every   *)
(* text that contains the words "mãe da Ana" every extracted mention of    *)
(* type "mae"/"mãe" leaves the relativizer with type "sogra".              *)
C7_Original ==
  \A f \in Flows :
    ( /\ AposRelativizar(f)
      /\ ConjugeAna(proc[f].user_id)
      /\ ContainsText(proc[f].texto, TextoMaeDaAna) )
    => \A k \in 1..Len(proc[f].lote) :
         TipoN(proc[f].lote[k]) = Mae => proc[f].pessoas[k].tipo_vinculo = Sogra

(* The entries a record should hold: the last HistoricoMax of those        *)
(* appended to it.                                                         *)
UltimasEntradas(k) ==
  IF Len(appended[k]) <= HistoricoMax THEN appended[k]
  ELSE [j \in 1..HistoricoMax |-> appended[k][Len(appended[k]) - HistoricoMax + j]]

(* C8: after any sequence of consolidations every record's history has     *)
(* between 1 and 12 entries, each excerpt has at most 240 characters, and  *)
(* the history is the most recent entries appended to the record, in the   *)
(* order they were appended; after 15 merges (16 entries appended) it has  *)
(* exactly 12 entries.                                                     *)
C8_HistoryBound ==
  \A k \in 1..Len(vinculos) :
    LET h == vinculos[k].historico_mencoes
    IN  /\ Len(h) >= 1
        /\ Len(h) <= 12
        /\ \A j \in 1..Len(h) : Len(h[j].trecho) <= 240
        /\ h = UltimasEntradas(k)
        /\ (Len(appended[k]) >= 16 => Len(h) = 12)
        /\ \A j \in 1..(Len(h) - 1) : h[j].data <= h[j + 1].data

C8_Witness ==
  /\ Len(vinculos) >= 1
  /\ Len(appended[1]) = 16
  /\ vinculos[1].frequencia_mencao = 16
  /\ Len(vinculos[1].historico_mencoes) = 12
  /\ appended[1][1] \notin {vinculos[1].historico_mencoes[j] : j \in 1..12}
  /\ Len(vinculos[1].historico_mencoes[12].trecho) = 240

(* C9 as stated: across any step, those of two interleaved flows of the    *)
(* same user included, the mention count of no record decreases.           *)
C9_Original ==
  [][ \A k \in 1..Len(vinculos) :
        vinculos'[k].frequencia_mencao >= vinculos[k].frequencia_mencao ]_vars

(* C10 as stated: the alias list of every stored record has no empty       *)
(* string and no two entries equal after normalize.                        *)
C10_Original ==
  \A k \in 1..Len(vinculos) :
    LET a == vinculos[k].apelidos_descricoes
    IN  /\ \A i \in 1..Len(a) : a[i] # <<>>
        /\ \A i, j \in 1..Len(a) : i # j => normalize(a[i]) # normalize(a[j])

(* Row v is mentioned now: its normalized name or one of its normalized    *)
(* aliases is among the normalized names of the turn.                      *)
MencionadoAgora(v, nomes) ==
  LET N == {normalize(nomes[k]) : k \in 1..Len(nomes)}
  IN  \/ NomeN(v) \in N
      \/ \E k \in 1..Len(v.apelidos_descricoes) : normalize(v.apelidos_descricoes[k]) \in N

(* Row a does not rank after row b: count descending, then last mention    *)
(* descending.                                                             *)
NaoDepois(a, b) ==
  \/ a.frequencia_mencao > b.frequencia_mencao
  \/ a.frequencia_mencao = b.frequencia_mencao /\ a.ultima_mencao >= b.ultima_mencao

Contagens(rows) == [k \in 1..Len(rows) |-> rows[k].frequencia_mencao]

(* C11: the selector returns rows of the store, none twice, min(limit,      *)
(* number of records) of them: the rows mentioned now first, then the       *)
(* others by mention count descending and last mention descending; a row    *)
(* is left out only behind the rows returned.  For the counts [5,1,9],      *)
(* none mentioned and limit 2 the result has the counts [9,5].              *)
C11_ContextSelection ==
  LET p == proc[1]
      r == p.vinculosContexto
      nomes == p.nomesOuApelidosCitados
      fora == {k \in 1..Len(vinculos) : \A i \in 1..Len(r) : r[i].id # k}
  IN  (p.pc = "selecao" /\ p.lido) =>
        /\ Len(r) = (IF p.limite <= Len(vinculos) THEN p.limite ELSE Len(vinculos))
        /\ \A i \in 1..Len(r) : r[i].id \in 1..Len(vinculos) /\ r[i] = vinculos[r[i].id]
        /\ \A i, j \in 1..Len(r) : i < j =>
             /\ r[i].id # r[j].id
             /\ MencionadoAgora(r[j], nomes) => MencionadoAgora(r[i], nomes)
             /\ ~MencionadoAgora(r[i], nomes) => NaoDepois(r[i], r[j])
        /\ \A k \in fora : \A i \in 1..Len(r) :
             /\ MencionadoAgora(vinculos[k], nomes) => MencionadoAgora(r[i], nomes)
             /\ (~MencionadoAgora(vinculos[k], nomes) /\ ~MencionadoAgora(r[i], nomes))
                  => NaoDepois(r[i], vinculos[k])
        /\ (Contagens(vinculos) = <<5, 1, 9>> /\ nomes = <<>> /\ p.limite = 2)
             => Contagens(r) = <<9, 5>>

C11_Witness ==
  /\ proc[1].pc = "selecao"
  /\ proc[1].lido
  /\ Contagens(vinculos) = <<5, 1, 9>>
  /\ proc[1].nomesOuApelidosCitados = <<>>
  /\ proc[1].limite = 2
  /\ Contagens(proc[1].vinculosContexto) = <<9, 5>>

(* C12 as stated: whatever content the model answers (no JSON, no array,   *)
(* an array with elements that are no mention objects), the extraction     *)
(* step and the loop that consumes its result end without an exception.    *)
C12_Original ==
  \A f \in Flows :
    proc[f].pc = "fim" => proc[f].erro \notin {"relativizar", "mencao"}

(* The step in which the summarization call of flow f fails or answers an  *)
(* empty content leaves the whole table as it was.                         *)
PerfilFalhoNaoEscreve ==
  [][ \A f \in Flows :
        (proc[f].pc = "perfil_llm" /\ proc'[f].pc # "perfil_llm"
           /\ proc'[f].pc # "perfil_gravar") => vinculos' = vinculos ]_vars

(* C13 as stated, for the reply: a turn of /ia in which the summarization  *)
(* collaborator failed still produces and persists its reply.              *)
C13_Original ==
  \A f \in Flows :
    (proc[f].pc = "fim" /\ proc[f].rota = "ia" /\ proc[f].erro = "resumo")
      => proc[f].res = "resposta"

(* Row v and mention m have equal non-empty normalized names, or share an  *)
(* alias that contains a space.                                            *)
EvidenciaForte(v, m) ==
  \/ (NomeN(m) # <<>> /\ NomeN(v) = NomeN(m))
  \/ \E a \in ApelidosComuns(v, m) : HasSpace(a)

(* C14: in a consolidation that read the store, (a) when no record read    *)
(* has an equal non-empty name or a shared alias with a space, whatever    *)
(* single-token aliases are shared, the resolver returns null and, the     *)
(* write succeeding, a new record is inserted; (b) when some record read   *)
(* has such evidence, the resolver returns a record and the write is an    *)
(* update.                                                                 *)
C14_WeakVersusStrong ==
  LET c == proc[1].ult
      forte == {k \in 1..Len(c.existentes) : EvidenciaForte(c.existentes[k], c.pessoa)}
  IN  (c.op # "none" /\ c.lido) =>
        /\ (forte = {}) => (c.match = 0 /\ c.op = "insert" /\ (c.ok => Inseriu(c)))
        /\ (forte # {}) => (c.match > 0 /\ c.op = "update")

(* A mention whose only overlap with the records read is a single-token    *)
(* alias shared with a record of its own type has been inserted.           *)
C14_Witness ==
  LET c == proc[1].ult
  IN  /\ CicloLimpo(c)
      /\ \A k \in 1..Len(c.existentes) : ~EvidenciaForte(c.existentes[k], c.pessoa)
      /\ \E k \in 1..Len(c.existentes) :
           /\ ApelidosComuns(c.existentes[k], c.pessoa) # {}
           /\ TipoN(c.existentes[k]) = TipoN(c.pessoa)
      /\ Inseriu(c)

(* Among the types of the inputs: a conjugal type against a sibling or a   *)
(* parental one, either way round.                                         *)
Conflitam(v, m) ==
  \/ (TipoN(v) = Esposa /\ TipoN(m) \in {Irma, Mae})
  \/ (TipoN(v) \in {Irma, Mae} /\ TipoN(m) = Esposa)

(* Row v and mention m share an alias without a space. *)
FracoComum(v, m) == \E a \in ApelidosComuns(v, m) : ~HasSpace(a)

(* What the exact name and the alias with a space add to the score. *)
PontosFortes(v, m) ==
  (IF NomeN(m) # <<>> /\ NomeN(v) = NomeN(m) THEN PesoNome ELSE 0)
    + (IF \E a \in ApelidosComuns(v, m) : HasSpace(a) THEN PesoAliasComposto ELSE 0)

(* C15: in a consolidation that read the store, a record whose type group  *)
(* conflicts with the mention's is returned by the resolver only if its    *)
(* name is equal and non-empty or it shares an alias with a space; for     *)
(* every record read that shares a single-token alias, the +2 is in the    *)
(* score exactly when the groups do not conflict.                          *)
C15_ConflictGate ==
  LET c == proc[1].ult
  IN  (c.op # "none" /\ c.lido) =>
        /\ (c.match > 0 /\ Conflitam(LinhaCasada(c), c.pessoa))
              => EvidenciaForte(LinhaCasada(c), c.pessoa)
        /\ \A k \in 1..Len(c.existentes) :
             LET v == c.existentes[k]
             IN  FracoComum(v, c.pessoa) =>
                   IF Conflitam(v, c.pessoa)
                   THEN scoreDe(v, c.pessoa) - PontosFortes(v, c.pessoa) \in {0, PesoJaccard}
                   ELSE scoreDe(v, c.pessoa) = PontosFortes(v, c.pessoa) + PesoAliasFraco

(* The resolver returned a record of a conflicting group on its equal name *)
(* while another record of a conflicting group, sharing only a single-     *)
(* token alias, was among those read.                                      *)
C15_Witness ==
  LET c == proc[1].ult
  IN  /\ c.op = "update"
      /\ c.lido
      /\ c.match > 0
      /\ Conflitam(LinhaCasada(c), c.pessoa)
      /\ \E k \in 1..Len(c.existentes) :
           /\ k # c.match
           /\ Conflitam(c.existentes[k], c.pessoa)
           /\ FracoComum(c.existentes[k], c.pessoa)
           /\ ~EvidenciaForte(c.existentes[k], c.pessoa)

(* The records of cycle c that the conflict gate lets through. *)
NaoPulados(c) == {k \in 1..Len(c.existentes) : ~skipped(c.existentes[k], c.pessoa)}

(* Those among them with the highest score. *)
Melhores(c) ==
  {k \in NaoPulados(c) :
     \A j \in NaoPulados(c) : scoreDe(c.existentes[j], c.pessoa) <= scoreDe(c.existentes[k], c.pessoa)}

(* C16: in a consolidation that read the store, the resolver returns the   *)
(* first, in the order read, of the non-skipped records with the highest   *)
(* score when that score is at least 5, and null otherwise.                *)
C16_ResolverSelection ==
  LET c == proc[1].ult
  IN  (c.op # "none" /\ c.lido) =>
        IF \E k \in Melhores(c) : scoreDe(c.existentes[k], c.pessoa) >= LimiarMatch
        THEN /\ c.match \in Melhores(c)
             /\ \A k \in Melhores(c) : c.match <= k
        ELSE c.match = 0

(* Two records read tie at the highest score, which is at least 5, and the *)
(* first of them was returned.                                             *)
C16_Witness ==
  LET c == proc[1].ult
  IN  /\ c.op = "update"
      /\ c.lido
      /\ Cardinality(Melhores(c)) = 2
      /\ c.match \in Melhores(c)
      /\ \E k \in Melhores(c) : c.match < k

(* The write of the second mention of a message of two mentions has just   *)
(* returned: pen and ult are the cycles of its first and second mention.   *)
SegundaMencaoEscrita(p) ==
  /\ p.pc = "perfil_ler"
  /\ Len(p.pessoas) = 2
  /\ p.i = 2

(* Both mentions carry the same non-empty name, every store call of the    *)
(* two cycles succeeded, and the person was new: the first cycle read no   *)
(* record of that name and matched none.                                   *)
C17_Caso(p) ==
  /\ SegundaMencaoEscrita(p)
  /\ CicloLimpo(p.pen)
  /\ CicloLimpo(p.ult)
  /\ NomeN(p.pen.pessoa) # <<>>
  /\ NomeN(p.ult.pessoa) = NomeN(p.pen.pessoa)
  /\ LinhasComNomeEm(p.pen.existentes, NomeN(p.pen.pessoa)) = {}
  /\ p.pen.match = 0

(* C17: the two mentions of a message are consolidated in their order, the *)
(* second reading the store as the write of the first left it; when both   *)
(* name the same new person, the store ends with exactly one record of     *)
(* that name, with mention count 2.                                        *)
C17_WithinMessage ==
  LET p == proc[1]
  IN  /\ SegundaMencaoEscrita(p) =>
           /\ p.pen.pessoa = p.pessoas[1]
           /\ p.ult.pessoa = p.pessoas[2]
           /\ (p.pen.ok /\ p.pen.op = "insert" /\ p.ult.lido) =>
                 /\ Len(p.ult.existentes) = p.pen.id
                 /\ p.ult.existentes[p.pen.id].frequencia_mencao = 1
                 /\ NomeN(p.ult.existentes[p.pen.id]) = NomeN(p.pen.pessoa)
      /\ C17_Caso(p) =>
           /\ p.ult.op = "update"
           /\ p.ult.id = p.pen.id
           /\ LinhasComNome(NomeN(p.pen.pessoa)) = {p.pen.id}
           /\ vinculos[p.pen.id].frequencia_mencao = 2

C17_Witness ==
  /\ C17_Caso(proc[1])
  /\ Cardinality(LinhasComNome(NomeN(proc[1].pen.pessoa))) = 1
  /\ vinculos[proc[1].pen.id].frequencia_mencao = 2

(* The cycles c1 and c2, of different flows, name the same person, read    *)
(* the same snapshot of the user's records and both wrote with success.    *)
LeramOMesmo(c1, c2) ==
  /\ CicloLimpo(c1)
  /\ CicloLimpo(c2)
  /\ NomeN(c1.pessoa) # <<>>
  /\ NomeN(c2.pessoa) = NomeN(c1.pessoa)
  /\ c2.existentes = c1.existentes

(* Both cycles inserted: two records of the one person. *)
DuploInsert(c1, c2) ==
  /\ LeramOMesmo(c1, c2)
  /\ c1.op = "insert"
  /\ c2.op = "insert"

(* Both cycles merged into the same record. *)
DuploMerge(c1, c2) ==
  /\ LeramOMesmo(c1, c2)
  /\ c1.op = "update"
  /\ c2.op = "update"
  /\ c2.id = c1.id

(* C18: when the last cycles of two interleaved flows of one user read the *)
(* same snapshot for the same person, (a) if both inserted, the store      *)
(* holds two different records of that person; (b) if both merged into the *)
(* same record, the later write replaced the earlier: the record's count   *)
(* is the snapshot's plus 1 and its history has one entry more than the    *)
(* snapshot's, although two were appended.                                 *)
C18_CrossRequestRace ==
  LET c1 == proc[1].ult
      c2 == proc[2].ult
  IN  /\ DuploInsert(c1, c2) =>
           /\ c1.id # c2.id
           /\ {c1.id, c2.id} \subseteq LinhasComNome(NomeN(c1.pessoa))
      /\ DuploMerge(c1, c2) =>
           LET antes == LinhaCasada(c1)
           IN  /\ vinculos[c1.id].frequencia_mencao = antes.frequencia_mencao + 1
               /\ Len(vinculos[c1.id].historico_mencoes) = Len(antes.historico_mencoes) + 1
               /\ Len(appended[c1.id]) >= Len(antes.historico_mencoes) + 2

(* Two flows have each merged a mention of "Ana" into her record from the  *)
(* same snapshot, in which its count was 1: the count is 2, not 3.         *)
C18_Witness ==
  /\ DuploMerge(proc[1].ult, proc[2].ult)
  /\ LinhaCasada(proc[1].ult).frequencia_mencao = 1
  /\ vinculos[proc[1].ult.id].frequencia_mencao = 2
  /\ Len(appended[proc[1].ult.id]) = 3

(* C19 as stated: the compactor is entered for a mention only when the     *)
(* insert or the update of that mention succeeded.                         *)
C19_Original ==
  \A f \in Flows : proc[f].pc = "perfil_ler" => proc[f].ult.ok

(* The text of flow f has a match of the pattern whose name is a stored    *)
(* spouse record's name or alias.                                          *)
TextoCitaConjuge(f) ==
  algumConjuge(proc[f].texto, 1, getConjuges(linhasDoUsuario(proc[f].user_id)))

(* C20 as stated: when the text matches the pattern with the name of a     *)
(* stored spouse, every mention extracted as "mae"/"mãe" leaves the        *)
(* relativizer as "sogra" and every mention extracted as "pai" leaves it   *)
(* as "sogro".                                                             *)
C20_Original ==
  \A f \in Flows :
    (AposRelativizar(f) /\ TextoCitaConjuge(f)) =>
      \A k \in 1..Len(proc[f].lote) :
        /\ TipoN(proc[f].lote[k]) = Mae => proc[f].pessoas[k].tipo_vinculo = Sogra
        /\ TipoN(proc[f].lote[k]) = Pai => proc[f].pessoas[k].tipo_vinculo = Sogro

(* Flow f has just left the relativizer. *)
SaiuDoRelativizador(f) == proc[f].pc = "buscar" /\ proc[f].i = 1

(* The store holds a record of a conjugal type for the user. *)
TemConjuge(user_id) ==
  \E k \in 1..Len(vinculos) :
    vinculos[k].user_id = user_id /\ TipoN(vinculos[k]) \in LexConjugal

(* C21: the relativizer returns as many mentions as it got, in the same    *)
(* order, with their names and aliases untouched; a mention whose          *)
(* normalized type is neither "mae" nor "pai" is returned as it was, so an *)
(* in-law type never becomes a parent type, and a type that changes        *)
(* becomes "sogra" or "sogro"; without a stored spouse, without a read of  *)
(* the spouse records, or without a match in the text that names a stored  *)
(* spouse, the batch is returned unchanged.                                *)
C21_RelativizerFrame ==
  \A f \in Flows :
    SaiuDoRelativizador(f) =>
      /\ Len(proc[f].pessoas) = Len(proc[f].lote)
      /\ \A k \in 1..Len(proc[f].lote) :
           LET a == proc[f].lote[k]
               b == proc[f].pessoas[k]
           IN  /\ b.nome_real = a.nome_real
               /\ b.apelidos = a.apelidos
               /\ TipoN(a) \notin {Mae, Pai} => b = a
               /\ b.tipo_vinculo # a.tipo_vinculo => b.tipo_vinculo \in {Sogra, Sogro}
      /\ (~TemConjuge(proc[f].user_id) \/ ~proc[f].conjLido \/ ~TextoCitaConjuge(f))
           => proc[f].pessoas = proc[f].lote

(* A batch of a father and a mother-in-law has left the relativizer on a   *)
(* text that names the stored spouse: the first was rewritten to an in-law *)
(* type, the second is as it was.                                          *)
C21_Witness ==
  /\ SaiuDoRelativizador(1)
  /\ TextoCitaConjuge(1)
  /\ Len(proc[1].lote) = 2
  /\ TipoN(proc[1].lote[1]) = Pai
  /\ proc[1].lote[2].tipo_vinculo = Sogra
  /\ proc[1].pessoas[1].tipo_vinculo \in {Sogra, Sogro}
  /\ proc[1].pessoas[2] = proc[1].lote[2]

(* The steps of the compaction of one record. *)
PassosPerfil == {"perfil_ler", "perfil_llm", "perfil_gravar"}

(* A step that takes a flow from p to q keeps the order of the pipeline.   *)
(* The loop over the mentions is left for the next mention, for the        *)
(* context selection once the last mention is done, or by an exception.    *)
SaiDaMencao(p, q) ==
  \/ (q.pc = "buscar" /\ q.i = p.i + 1 /\ p.i < Len(p.pessoas))
  \/ (q.pc = "selecionar" /\ p.i = Len(p.pessoas))
  \/ q.pc = "fim"

OrdemDoPasso(p, q) ==
  CASE p.pc = "extrair" ->
         q.pc \in {"relativizar", "fim"} /\ vinculos' = vinculos
    [] p.pc = "relativizar" ->
         /\ p.i = 0
         /\ p.ult = q.ult
         /\ vinculos' = vinculos
         /\ \/ (q.pc = "buscar" /\ q.i = 1 /\ Len(q.pessoas) >= 1)
            \/ (q.pc = "selecionar" /\ Len(q.pessoas) = 0)
            \/ q.pc = "fim"
    [] p.pc = "buscar" ->
         q.pc = "gravar" /\ q.i = p.i /\ q.ult = p.ult /\ vinculos' = vinculos
    [] p.pc = "gravar" ->
         /\ q.ult # p.ult \/ q.pen # p.pen
         /\ \/ (q.pc = "perfil_ler" /\ q.i = p.i /\ q.id # 0)
            \/ (q.ult.id = 0 /\ SaiDaMencao(p, q))
    [] p.pc = "perfil_ler" ->
         (q.pc = "perfil_llm" /\ q.i = p.i) \/ SaiDaMencao(p, q)
    [] p.pc = "perfil_llm" ->
         (q.pc = "perfil_gravar" /\ q.i = p.i) \/ SaiDaMencao(p, q)
    [] p.pc = "perfil_gravar" -> SaiDaMencao(p, q)
    [] p.pc = "selecionar" -> q.pc = "responder" /\ vinculos' = vinculos
    [] p.pc = "responder" -> q.pc = "fim" /\ vinculos' = vinculos
    [] OTHER -> q.pc = "extrair" /\ vinculos' = vinculos

(* C22: every step of a handled message follows the pipeline: extraction,  *)
(* then the relativizer with its read of the spouse records, before any    *)
(* mention of the message is consolidated; for each mention the read and   *)
(* the resolver, then the insert or update, then the compaction of the     *)
(* record, then the next mention; the context selection only after the     *)
(* last mention.  The store changes only in a write or a compaction step.  *)
C22_PipelineOrder ==
  [][ \A f \in Flows : proc'[f] # proc[f] => OrdemDoPasso(proc[f], proc'[f]) ]_vars

(* The context selection is about to read the store after both mentions of *)
(* a message were consolidated, each followed by its compaction.           *)
C22_Witness ==
  /\ proc[1].pc = "selecionar"
  /\ Len(proc[1].pessoas) = 2
  /\ proc[1].i = 3
  /\ CicloLimpo(proc[1].pen)
  /\ CicloLimpo(proc[1].ult)
  /\ proc[1].ult.op = "update"
  /\ \E k \in 1..Len(vinculos) : vinculos[k].perfil_compacto # Null

Desconhecido == <<"d", "e", "s", "c", "o", "n", "h", "e", "c", "i", "d", "o">>

(* The record the spec asks for when mention m of the text texto is        *)
(* inserted for user_id at the time agora, under the id the store gives.   *)
RegistroEsperado(id, user_id, m, agora, texto) ==
  [ id |-> id,
    user_id |-> user_id,
    nome_real |-> IF m.nome_real = <<>> THEN Null ELSE m.nome_real,
    tipo_vinculo |-> IF m.tipo_vinculo = <<>> THEN Desconhecido ELSE m.tipo_vinculo,
    apelidos_descricoes |-> SelectSeq(m.apelidos, LAMBDA a : a # <<>>),
    marcador_emocional |-> <<>>,
    contextos_relevantes |-> <<>>,
    frequencia_mencao |-> 1,
    ultima_mencao |-> agora,
    historico_mencoes |->
      <<[data |-> agora, trecho |-> SubSeq(texto, 1, Min({Len(texto), TrechoMax}))]>>,
    perfil_compacto |-> Null ]

(* The step is the write of flow f, an insert that succeeded. *)
InsertFeito(f) ==
  /\ proc[f].pc = "gravar"
  /\ proc[f].match = 0
  /\ proc'[f] # proc[f]
  /\ proc'[f].ult.ok

(* C23: a write that follows a null answer of the resolver and succeeds    *)
(* appends exactly one record to the store, with the name of the mention   *)
(* or null, its type or "desconhecido", its aliases (empty strings left    *)
(* out), count 1, the time of the batch, one history entry with that time  *)
(* and the first 240 characters of the text, and a null compact profile;   *)
(* the records already stored are as they were.                            *)
C23_InsertOnNoMatch ==
  [][ \A f \in Flows :
        InsertFeito(f) =>
          vinculos' = Append(vinculos,
                             RegistroEsperado(Len(vinculos) + 1, proc[f].user_id,
                                              proc[f].lote[proc[f].i], proc[f].agoraISO,
                                              proc[f].texto)) ]_vars

(* The mention without name and type was inserted after another record:    *)
(* null name, type "desconhecido", the alias "Lu" alone, an excerpt of 240 *)
(* characters.                                                             *)
C23_Witness ==
  LET c == proc[1].ult
  IN  /\ CicloLimpo(c)
      /\ Inseriu(c)
      /\ Len(vinculos) = 2
      /\ c.id = 2
      /\ vinculos[2].nome_real = Null
      /\ vinculos[2].tipo_vinculo = Desconhecido
      /\ vinculos[2].apelidos_descricoes = <<Lu>>
      /\ vinculos[2].frequencia_mencao = 1
      /\ Len(vinculos[2].historico_mencoes[1].trecho) = TrechoMax
      /\ vinculos[1] = c.existentes[1]

(* The step is the write of flow f, an update of the record the resolver   *)
(* returned.                                                               *)
MergeDe(f) ==
  /\ proc[f].pc = "gravar"
  /\ proc[f].match > 0
  /\ proc'[f] # proc[f]

(* The id of the record the resolver returned to flow f. *)
IdCasado(f) == proc[f].existentes[proc[f].match].id

(* C24: the write that follows a match leaves the number of records as it  *)
(* was, leaves every record other than the matched one as it was, those of *)
(* other users included, and leaves the id, the owner, the emotion         *)
(* markers, the relevant contexts and the compact profile of the matched   *)
(* record as they were.                                                    *)
C24_MergeFrame ==
  [][ \A f \in Flows :
        MergeDe(f) =>
          /\ Len(vinculos') = Len(vinculos)
          /\ \A k \in 1..Len(vinculos) :
               IF vinculos[k].id = IdCasado(f)
               THEN /\ vinculos'[k].id = vinculos[k].id
                    /\ vinculos'[k].user_id = vinculos[k].user_id
                    /\ vinculos'[k].marcador_emocional = vinculos[k].marcador_emocional
                    /\ vinculos'[k].contextos_relevantes = vinculos[k].contextos_relevantes
                    /\ vinculos'[k].perfil_compacto = vinculos[k].perfil_compacto
               ELSE vinculos'[k] = vinculos[k] ]_vars

(* A merge has updated the record of the acting user, which still has its  *)
(* markers, contexts and profile, next to the untouched record of the      *)
(* other user.                                                             *)
C24_Witness ==
  LET c == proc[1].ult
  IN  /\ c.op = "update"
      /\ c.ok
      /\ c.id = 2
      /\ Len(vinculos) = 3
      /\ vinculos[2].frequencia_mencao = 4
      /\ vinculos[2].marcador_emocional = <<Amor>>
      /\ vinculos[2].contextos_relevantes = <<Casa>>
      /\ vinculos[2].perfil_compacto # Null
      /\ vinculos[1].user_id = "u2"
      /\ vinculos[1].frequencia_mencao = 3

(* The length of a stored name, null counting as empty. *)
TamanhoNome(nome_real) == IF nome_real = Null THEN 0 ELSE Len(nome_real)

(* The name the spec asks for after a merge of a mention named novo into a *)
(* record whose stored name is antes.                                      *)
NomeEsperado(antes, novo) ==
  IF \/ (TamanhoNome(antes) = 0 /\ novo # <<>>)
     \/ Len(novo) > TamanhoNome(antes)
  THEN novo
  ELSE antes

(* C25: after a merge whose write succeeded the name of the record is the  *)
(* mention's when the stored one was empty and the mention's is not, or    *)
(* when the mention's is strictly longer, and the stored one otherwise;    *)
(* and in no step does the name of a record become shorter or empty.       *)
C25_NamePreference ==
  [][ /\ \A f \in Flows :
           (MergeDe(f) /\ proc'[f].ult.ok) =>
             \A k \in 1..Len(vinculos) :
               vinculos[k].id = IdCasado(f) =>
                 vinculos'[k].nome_real =
                   NomeEsperado(vinculos[k].nome_real, proc[f].lote[proc[f].i].nome_real)
      /\ \A k \in 1..Len(vinculos) :
           TamanhoNome(vinculos'[k].nome_real) >= TamanhoNome(vinculos[k].nome_real) ]_vars

(* A record stored without a name went through a sequence of merges: it   *)
(* took the name "Luciana", then the longer "Luciana Braga", and the last  *)
(* merge, of a mention named "Luciana Brega" of the same length, kept it.  *)
C25_Witness ==
  LET c == proc[1].ult
  IN  /\ c.op = "update"
      /\ c.ok
      /\ c.match > 0
      /\ LinhaCasada(c).nome_real = LucianaBraga
      /\ LinhaCasada(c).frequencia_mencao = 3
      /\ c.pessoa.nome_real = LucianaBrega
      /\ vinculos[c.id].nome_real = LucianaBraga
      /\ vinculos[c.id].frequencia_mencao = 4

(* The union the spec describes: the list so far followed by the aliases   *)
(* of novos whose normal form is not yet present, each added once, in the  *)
(* spelling of its first occurrence.                                       *)
RECURSIVE UniaoEsperada(_, _)
UniaoEsperada(lista, novos) ==
  IF novos = <<>> THEN lista
  ELSE IF \E k \in 1..Len(lista) : normalize(lista[k]) = normalize(Head(novos))
       THEN UniaoEsperada(lista, Tail(novos))
       ELSE UniaoEsperada(Append(lista, Head(novos)), Tail(novos))

(* C26: after a merge whose write succeeded the alias list of the record   *)
(* is the stored list, in its order, followed by the aliases of the        *)
(* mention whose normal form was not yet present, each added once.         *)
C26_Original ==
  [][ \A f \in Flows :
        (MergeDe(f) /\ proc'[f].ult.ok) =>
          \A k \in 1..Len(vinculos) :
            vinculos[k].id = IdCasado(f) =>
              vinculos'[k].apelidos_descricoes =
                UniaoEsperada(vinculos[k].apelidos_descricoes,
                              proc[f].lote[proc[f].i].apelidos) ]_vars

(* The call of flow f is over and did not throw. *)
Retornou(f) == proc[f].pc = "fim" /\ proc[f].erro = "-"

(* x is a string, not null and not undefined. *)
EhTexto(x) == x \notin {Null, Undefined}

(* On every text, and on a missing argument, normalize returns a text, the *)
(* empty one for a missing argument, and normalize of that text is that    *)
(* text; getConjuges returns on every row whose tipo_vinculo is a text.    *)
NormalizeNosTextos ==
  \A f \in Flows :
    (proc[f].pc = "fim" /\ proc[f].texto # Null) =>
      /\ Retornou(f)
      /\ proc[f].rota = "normalize" =>
           /\ EhTexto(proc[f].resumo)
           /\ normalize(proc[f].resumo) = proc[f].resumo
           /\ proc[f].texto = Undefined => proc[f].resumo = <<>>

(* C27: normalize never fails: on every input, null and a missing argument *)
(* included, the call returns a text, the empty one for a missing          *)
(* argument, normalize of the result is the result, and the filter of      *)
(* getConjuges returns on a stored row whose tipo_vinculo is null.         *)
C27_Original ==
  \A f \in Flows :
    proc[f].pc = "fim" =>
      /\ Retornou(f)
      /\ proc[f].rota = "normalize" =>
           /\ EhTexto(proc[f].resumo)
           /\ normalize(proc[f].resumo) = proc[f].resumo
           /\ proc[f].texto = Undefined => proc[f].resumo = <<>>

(* The mention m carries no name and no alias (empty strings are no alias). *)
SemNomeNemApelido(m) ==
  /\ m.nome_real \in {<<>>, Null}
  /\ \A k \in 1..Len(m.apelidos) : m.apelidos[k] = <<>>

(* C28: for a mention that carries no name and no alias the resolver       *)
(* returns null whatever records exist, the write that follows is an       *)
(* insert, and when it succeeds the store has one record more and every    *)
(* record it had is as it was: k such mentions leave k records.            *)
C28_UnnamedNeverMatches ==
  [][ \A f \in Flows :
        ( /\ proc[f].pc = "gravar"
          /\ proc'[f] # proc[f]
          /\ SemNomeNemApelido(proc[f].lote[proc[f].i]) ) =>
          /\ proc[f].match = 0
          /\ proc'[f].ult.op = "insert"
          /\ proc'[f].ult.ok =>
               /\ Len(vinculos') = Len(vinculos) + 1
               /\ SubSeq(vinculos', 1, Len(vinculos)) = vinculos
               /\ vinculos'[Len(vinculos')].nome_real = Null
               /\ vinculos'[Len(vinculos')].apelidos_descricoes = <<>> ]_vars

(* Two mentions "esposa" without name or alias, in one message, on a store *)
(* that already had a record of a wife without name: each was inserted,    *)
(* and the store has two records more, both without name or alias.         *)
C28_Witness ==
  LET a == proc[1].pen
      b == proc[1].ult
  IN  /\ a.op = "insert" /\ a.ok
      /\ b.op = "insert" /\ b.ok
      /\ SemNomeNemApelido(a.pessoa) /\ a.pessoa.tipo_vinculo = Esposa
      /\ SemNomeNemApelido(b.pessoa) /\ b.pessoa.tipo_vinculo = Esposa
      /\ \E k \in 1..Len(a.existentes) :
            a.existentes[k].nome_real = Null /\ a.existentes[k].tipo_vinculo = Esposa
      /\ a.id # b.id
      /\ Len(vinculos) = Len(a.existentes) + 2
      /\ vinculos[a.id].nome_real = Null /\ vinculos[a.id].apelidos_descricoes = <<>>
      /\ vinculos[b.id].nome_real = Null /\ vinculos[b.id].apelidos_descricoes = <<>>

(* The points of the two strong criteria alone: the names are equal and    *)
(* not empty, or an alias of the mention that has a space is an alias of v. *)
pontosFortes(v, m) ==
  LET nomeN == normalize(Or(m.nome_real, <<>>))
      vNome == normalize(Or(v.nome_real, <<>>))
  IN  (IF nomeN # <<>> /\ nomeN = vNome THEN PesoNome ELSE 0)
      + (IF \E j \in 1..Len(m.apelidos), k \in 1..Len(v.apelidos_descricoes) :
              /\ HasSpace(normalize(m.apelidos[j]))
              /\ normalize(m.apelidos[j]) = normalize(v.apelidos_descricoes[k])
         THEN PesoAliasComposto ELSE 0)

(* The reduced resolver: the two strong criteria, the threshold, no gate;  *)
(* the first record of the highest score, 0 for null.                      *)
resolverReduzido(existing, m) ==
  LET fortes == {k \in 1..Len(existing) : pontosFortes(existing[k], m) >= LimiarMatch}
  IN  IF fortes = {} THEN 0
      ELSE Min({k \in fortes :
                  \A j \in fortes : pontosFortes(existing[j], m) <= pontosFortes(existing[k], m)})

(* C29: the record the resolver returns has the exact-name criterion or    *)
(* the multi-word-alias criterion fired for it, and the resolver returns   *)
(* null on exactly the inputs on which the reduced resolver returns null.  *)
C29_MatchImpliesStrongEvidence ==
  \A f \in Flows :
    proc[f].pc = "gravar" =>
      LET e == proc[f].existentes
          m == proc[f].pessoas[proc[f].i]
      IN  /\ (proc[f].match = 0) <=> (resolverReduzido(e, m) = 0)
          /\ proc[f].match > 0 => pontosFortes(e[proc[f].match], m) >= LimiarMatch

(* Two records have strong evidence for the mention; the resolver returned *)
(* the second, to which the single-token alias gave two points more, and   *)
(* the reduced resolver returns the first: both return a record.           *)
C29_Witness ==
  /\ proc[1].pc = "gravar"
  /\ proc[1].match = 2
  /\ resolverReduzido(proc[1].existentes, proc[1].pessoas[proc[1].i]) = 1
  /\ pontosFortes(proc[1].existentes[1], proc[1].pessoas[proc[1].i]) = PesoNome
  /\ scoreDe(proc[1].existentes[2], proc[1].pessoas[proc[1].i]) = PesoNome + PesoAliasFraco

(* A name of the turn that is not empty after normalization equals, after  *)
(* normalization, the non-empty name of v or one of its aliases.           *)
NomeadoPor(v, nomes) ==
  \E j \in 1..Len(nomes) :
    /\ normalize(nomes[j]) # <<>>
    /\ \/ v.nome_real # Null /\ normalize(v.nome_real) = normalize(nomes[j])
       \/ \E k \in 1..Len(v.apelidos_descricoes) :
            normalize(v.apelidos_descricoes[k]) = normalize(nomes[j])

(* C30: a record that the selector returned in the mentioned-now partition *)
(* has its non-empty name or one of its aliases equal, after               *)
(* normalization, to a non-empty name returned for the turn.               *)
C30_Original ==
  \A f \in Flows :
    proc[f].pc = "responder" =>
      \A k \in 1..Len(proc[f].vinculosContexto) :
        citadoAgora(proc[f].vinculosContexto[k], MapNormalize(nomesRetornados(proc[f]))) =>
          NomeadoPor(proc[f].vinculosContexto[k], nomesRetornados(proc[f]))

====
